---- MODULE Spec2Model ----
(***************************************************************************)
(* Graph consolidation engine of LLM-KG-FineTuner: entity alignment        *)
(* (EntityAligner), the identity map with its case/format variants,        *)
(* relationship resolution and the simple graph view                        *)
(* (EnhancedGraphDataProcessor), from src/graph_data_processor.py.          *)
(*                                                                         *)
(* Strings are sequences of ASCII codes, so that lower(), upper(),         *)
(* capitalize(), split() and replace() are computed character by           *)
(* character as Python computes them on ASCII text.                        *)
(***************************************************************************)
EXTENDS Integers, Sequences, FiniteSets, TLC

(***************************************************************************)
(* Bounds of the model.                                                    *)
(***************************************************************************)
\* longest list of raw entities handed to the aligner
MaxEntities == 3
\* most groups in one merge_groups response of the clustering call
MaxGroups == 2
\* longest list of raw relationships handed to the resolver
MaxRels == 2

(***************************************************************************)
(* Python str operations on ASCII text.                                    *)
(***************************************************************************)
EmptyStr == << >>

IsUpperChar(c) == c \in 65..90
IsLowerChar(c) == c \in 97..122

\* str.isspace() for one ASCII character: space, \t, \n, \v, \f, \r and the
\* separators \x1c to \x1f
IsSpaceChar(c) == c \in {32, 9, 10, 11, 12, 13, 28, 29, 30, 31}

LowerChar(c) == IF IsUpperChar(c) THEN c + 32 ELSE c
UpperChar(c) == IF IsLowerChar(c) THEN c - 32 ELSE c

\* str.lower()
Lower(s) == [k \in 1..Len(s) |-> LowerChar(s[k])]

\* str.upper()
Upper(s) == [k \in 1..Len(s) |-> UpperChar(s[k])]

\* str.capitalize(): first character upper-cased, the rest lower-cased
Capitalize(s) == [k \in 1..Len(s) |-> IF k = 1 THEN UpperChar(s[k]) ELSE LowerChar(s[k])]

\* `sub in s`
Contains(sub, s) ==
    \E k \in 0..(Len(s) - Len(sub)) : SubSeq(s, k + 1, k + Len(sub)) = sub

\* s.startswith(p)
StartsWith(s, p) == Len(p) <= Len(s) /\ SubSeq(s, 1, Len(p)) = p

\* s.replace(c, '') for a single character c
RemoveChar(s, c) == SelectSeq(s, LAMBDA x : x # c)

\* the separator '--' of prefix--suffix ids
Sep == <<45, 45>>

\* position of the first '--' in s, 0 when there is none
FirstSep(s) ==
    IF Contains(Sep, s)
    THEN CHOOSE k \in 1..(Len(s) - 1) :
            /\ SubSeq(s, k, k + 1) = Sep
            /\ \A j \in 1..(k - 1) : SubSeq(s, j, j + 1) # Sep
    ELSE 0

\* s.split('--', 1)[0] and [1], for s that contains '--'
SplitPrefix(s) == SubSeq(s, 1, FirstSep(s) - 1)
SplitSuffix(s) == SubSeq(s, FirstSep(s) + 2, Len(s))

\* str.split(): the maximal runs of non-whitespace characters, in order
RECURSIVE Words(_)
Words(s) ==
    IF s = EmptyStr THEN << >>
    ELSE IF IsSpaceChar(s[1]) THEN Words(Tail(s))
    ELSE LET stop == IF \E k \in 1..Len(s) : IsSpaceChar(s[k])
                     THEN CHOOSE k \in 1..Len(s) :
                            /\ IsSpaceChar(s[k])
                            /\ \A j \in 1..(k - 1) : ~IsSpaceChar(s[j])
                     ELSE Len(s) + 1
         IN  <<SubSeq(s, 1, stop - 1)>> \o Words(SubSeq(s, stop, Len(s)))

\* set(s)
CharSet(s) == {s[k] : k \in 1..Len(s)}

(***************************************************************************)
(* Dictionaries (Python dict with str keys) as functions.                  *)
(***************************************************************************)
EmptyMap == [k \in {} |-> EmptyStr]

\* d[key] = value
Put(d, key, value) ==
    [k \in (DOMAIN d) \cup {key} |-> IF k = key THEN value ELSE d[k]]

\* d.update(other): the entries of other replace those of d
Update(d, other) ==
    [k \in (DOMAIN d) \cup (DOMAIN other) |-> IF k \in DOMAIN other THEN other[k] ELSE d[k]]

(***************************************************************************)
(* EntityAligner: name similarity.                                         *)
(***************************************************************************)
\* ''.join(w[0].lower() for w in words if w)
RECURSIVE Acronym(_)
Acronym(words) ==
    IF words = << >> THEN EmptyStr
    ELSE <<LowerChar(Head(words)[1])>> \o Acronym(Tail(words))

_is_acronym_match(name1, name2) ==
    LET words1 == Words(name1)
        words2 == Words(name2)
    IN  IF Len(words1) = 1 /\ Len(words2) > 1
        THEN Lower(words1[1]) = Acronym(words2)
        ELSE IF Len(words2) = 1 /\ Len(words1) > 1
        THEN Lower(words2[1]) = Acronym(words1)
        ELSE FALSE

\* similarity_threshold 0.75 as the fraction 3/4: common/total >= 0.75
similarity_threshold_num == 3
similarity_threshold_den == 4

_are_names_similar(name1, name2) ==
    LET common_chars == Cardinality(CharSet(name1) \cap CharSet(name2))
        total_chars == Cardinality(CharSet(name1) \cup CharSet(name2))
    IN  \/ name1 = name2
        \/ Contains(name1, name2) \/ Contains(name2, name1)
        \/ _is_acronym_match(name1, name2)
        \/ /\ total_chars > 0
           /\ common_chars * similarity_threshold_den >= total_chars * similarity_threshold_num

\* indices (1-based positions in all_entities) of the entities similar to
\* the one at position target: the target first, then every other entity
\* that is not equal to it as a dict, has its type and a similar name
RECURSIVE SimilarFrom(_, _, _)
SimilarFrom(target, all_entities, j) ==
    IF j > Len(all_entities) THEN << >>
    ELSE LET entity == all_entities[j]
             target_entity == all_entities[target]
             rest == SimilarFrom(target, all_entities, j + 1)
         IN  IF entity = target_entity THEN rest
             ELSE IF /\ entity.type = target_entity.type
                     /\ _are_names_similar(Lower(target_entity.name), Lower(entity.name))
                  THEN <<j>> \o rest
                  ELSE rest

_find_similar_entities(target, all_entities) ==
    <<target>> \o SimilarFrom(target, all_entities, 1)

(***************************************************************************)
(* EntityAligner._merge_entities.  An entity is a record                   *)
(* [name, type, id, merge_count]; merge_count = 0 stands for an entity     *)
(* without properties.merge_count (a raw entity).  A raw entity may carry  *)
(* more fields (chunks_info); two entities are the same dict when all      *)
(* their fields are equal.                                                 *)
(***************************************************************************)
\* as LongestName, but the last name of greatest length
RECURSIVE LongestNameLast(_)
LongestNameLast(names) ==
    IF Len(names) = 1 THEN names[1]
    ELSE LET best == LongestNameLast(Tail(names))
         IN  IF Len(names[1]) > Len(best) THEN names[1] ELSE best

\* max(names, key=len): the first name of greatest length
RECURSIVE LongestName(_)
LongestName(names) ==
    IF Len(names) = 1 THEN names[1]
    ELSE LET best == LongestName(Tail(names))
         IN  IF Len(names[1]) >= Len(best) THEN names[1] ELSE best

\* as NormalizeName, but hyphens are kept
NormalizeNameKeepHyphen(name) == RemoveChar(Lower(name), 32)

\* best_name.lower().replace(' ', '').replace('-', '')
NormalizeName(name) == RemoveChar(RemoveChar(Lower(name), 32), 45)

MergedId(entity_type, name) == Lower(entity_type) \o Sep \o NormalizeName(name)

\* the id a single entity is given when its id lacks '--' or starts with 'unknown--'
SingleId(entity) == Lower(entity.type) \o Sep \o RemoveChar(Lower(entity.name), 32)

_merge_entities(ents) ==
    IF Len(ents) = 1
    THEN LET entity == ents[1]
         IN  IF ~Contains(Sep, entity.id) \/ StartsWith(entity.id, <<117, 110, 107, 110, 111, 119, 110, 45, 45>>)
             THEN [entity EXCEPT !.id = SingleId(entity)]
             ELSE entity
    ELSE LET best_name == LongestName([k \in 1..Len(ents) |-> ents[k].name])
             best_type == ents[1].type
         IN  [name |-> best_name, type |-> best_type,
              id |-> MergedId(best_type, best_name), merge_count |-> Len(ents)]

\* as OriginalNames, but empty names are collected too
RECURSIVE OriginalNamesKeepEmpty(_)
OriginalNamesKeepEmpty(ents) ==
    IF ents = << >> THEN << >>
    ELSE LET front == OriginalNamesKeepEmpty(SubSeq(ents, 1, Len(ents) - 1))
             name == ents[Len(ents)].name
         IN  IF \E k \in 1..Len(front) : front[k] = name THEN front ELSE Append(front, name)

\* original_names (lines 471-476): the distinct non-empty names, in order
RECURSIVE OriginalNames(_)
OriginalNames(ents) ==
    IF ents = << >> THEN << >>
    ELSE LET front == OriginalNames(SubSeq(ents, 1, Len(ents) - 1))
             name == ents[Len(ents)].name
         IN  IF name # EmptyStr /\ ~\E k \in 1..Len(front) : front[k] = name
             THEN Append(front, name)
             ELSE front

\* chunk_info.get('chunk_index') is not None
HasChunkIndex(chunk_info) == "chunk_index" \in DOMAIN chunk_info

\* the inner loop of lines 486-490 over the chunks_info of one entity;
\* acc is the pair of all_chunks_info and seen_chunk_indices
RECURSIVE CollectChunks(_, _)
CollectChunks(chunks_info, acc) ==
    IF chunks_info = << >> THEN acc
    ELSE LET chunk_info == Head(chunks_info)
             next == IF HasChunkIndex(chunk_info) /\ chunk_info.chunk_index \notin acc.seen
                     THEN [all |-> Append(acc.all, chunk_info),
                           seen |-> acc.seen \cup {chunk_info.chunk_index}]
                     ELSE acc
         IN  CollectChunks(Tail(chunks_info), next)

\* the outer loop of lines 484-490 over the entities
RECURSIVE CollectAllChunks(_, _)
CollectAllChunks(ents, acc) ==
    IF ents = << >> THEN acc
    ELSE CollectAllChunks(Tail(ents), CollectChunks(Head(ents).chunks_info, acc))

\* all_chunks_info of a merged entity (lines 480-490)
MergedChunksInfo(ents) == CollectAllChunks(ents, [all |-> << >>, seen |-> {}]).all

\* the fields of the entity _merge_entities returns that the aligner's state
\* does not carry: chunks_info, and original_names of its properties, which
\* is set only when more than one name was collected (lines 515-516).  A
\* single entity is returned as a copy and keeps its own chunks_info.
MergedFields(ents) ==
    IF Len(ents) = 1 THEN [chunks_info |-> ents[1].chunks_info]
    ELSE LET original_names == OriginalNames(ents)
             chunks_info == MergedChunksInfo(ents)
         IN  IF Len(original_names) > 1
             THEN [chunks_info |-> chunks_info, original_names |-> original_names]
             ELSE [chunks_info |-> chunks_info]

(***************************************************************************)
(* Identity map registration.                                              *)
(***************************************************************************)
\* the variants _add_id_variants derives from original_id
IdVariants(original_id) ==
    {Lower(original_id), Upper(original_id), Capitalize(original_id)}
    \cup (IF Contains(Sep, original_id)
          THEN LET prefix == SplitPrefix(original_id)
                   suffix == SplitSuffix(original_id)
               IN  {Lower(prefix) \o Sep \o Lower(suffix),
                    Upper(prefix) \o Sep \o Upper(suffix),
                    Capitalize(prefix) \o Sep \o suffix,
                    Capitalize(prefix) \o Sep \o Lower(suffix),
                    Capitalize(prefix) \o Sep \o Upper(suffix)}
          ELSE {})

\* as _add_id_variants, but without the capitalized form of the whole id
_add_id_variants_no_capitalize(original_id, mapped_id, id_map) ==
    IF original_id = EmptyStr \/ mapped_id = EmptyStr THEN id_map
    ELSE [k \in (DOMAIN id_map) \cup (IdVariants(original_id) \ {Capitalize(original_id)}) |->
            IF k \in DOMAIN id_map THEN id_map[k] ELSE mapped_id]

\* a variant is added only when it is not yet a key
_add_id_variants(original_id, mapped_id, id_map) ==
    IF original_id = EmptyStr \/ mapped_id = EmptyStr THEN id_map
    ELSE [k \in (DOMAIN id_map) \cup IdVariants(original_id) |->
            IF k \in DOMAIN id_map THEN id_map[k] ELSE mapped_id]

\* the variants _add_id_variants_fallback derives from entity_id
IdVariantsFallback(entity_id) ==
    {Lower(entity_id), Upper(entity_id), Capitalize(entity_id)}
    \cup (IF Contains(Sep, entity_id)
          THEN LET prefix == SplitPrefix(entity_id)
                   suffix == SplitSuffix(entity_id)
               IN  {Lower(prefix) \o Sep \o Lower(suffix),
                    Upper(prefix) \o Sep \o Upper(suffix),
                    Capitalize(prefix) \o Sep \o Lower(suffix),
                    Capitalize(prefix) \o Sep \o Upper(suffix)}
          ELSE {})

_add_id_variants_fallback(entity_id, id_map) ==
    IF entity_id = EmptyStr THEN id_map
    ELSE [k \in (DOMAIN id_map) \cup IdVariantsFallback(entity_id) |->
            IF k \in DOMAIN id_map THEN id_map[k] ELSE entity_id]

\* id_mapping[original_id] = mapped_id, then _add_id_variants: the direct
\* entry is a plain assignment
RegisterId(original_id, mapped_id, id_map) ==
    IF original_id # EmptyStr /\ mapped_id # EmptyStr
    THEN _add_id_variants(original_id, mapped_id, Put(id_map, original_id, mapped_id))
    ELSE id_map

\* name_mapping[original_name] = mapped_name, for a non-empty name
RegisterName(original_name, mapped_name, name_map) ==
    IF original_name # EmptyStr THEN Put(name_map, original_name, mapped_name) ELSE name_map

(***************************************************************************)
(* EntityAligner._rule_align.  The loop state is the record                *)
(* [aligned, names, ids, processed, members]; members is the history of    *)
(* which input positions were folded into each output entity.              *)
(***************************************************************************)
\* lines 369-380: every member of the group is mapped to the merged entity
RECURSIVE RegisterSimilar(_, _, _)
RegisterSimilar(similar_entities, merged_entity, maps) ==
    IF similar_entities = << >> THEN maps
    ELSE LET e == Head(similar_entities)
             next == [names |-> RegisterName(e.name, merged_entity.name, maps.names),
                      ids |-> RegisterId(e.id, merged_entity.id, maps.ids),
                      processed |-> IF e.name # EmptyStr
                                    THEN maps.processed \cup {e.name}
                                    ELSE maps.processed]
         IN  RegisterSimilar(Tail(similar_entities), merged_entity, next)

EmptyAlignState ==
    [aligned |-> << >>, names |-> EmptyMap, ids |-> EmptyMap, processed |-> {}, members |-> << >>]

\* one iteration of the loop of _rule_align, for the entity at position pos
RuleAlignBody(st, ents, pos) ==
    IF ents[pos].name \in st.processed THEN st
    ELSE LET sim == _find_similar_entities(pos, ents)
             similar_entities == [k \in 1..Len(sim) |-> ents[sim[k]]]
             merged_entity == _merge_entities(similar_entities)
             maps == RegisterSimilar(similar_entities, merged_entity,
                        [names |-> st.names, ids |-> st.ids, processed |-> st.processed])
         IN  [aligned |-> Append(st.aligned, merged_entity),
              names |-> maps.names, ids |-> maps.ids, processed |-> maps.processed,
              members |-> Append(st.members, {sim[k] : k \in 1..Len(sim)})]

RECURSIVE RuleAlignFrom(_, _, _)
RuleAlignFrom(st, ents, pos) ==
    IF pos > Len(ents) THEN st
    ELSE RuleAlignFrom(RuleAlignBody(st, ents, pos), ents, pos + 1)

\* the triple (aligned entities, name mapping, id mapping) _rule_align returns
_rule_align(ents) ==
    LET st == RuleAlignFrom(EmptyAlignState, ents, 1)
    IN  <<st.aligned, st.names, st.ids>>

(***************************************************************************)
(* EntityAligner._gpt_align: grouping by type, and the clustering reply.   *)
(***************************************************************************)
\* the keys of entities_by_type in insertion order
RECURSIVE TypeOrder(_)
TypeOrder(ents) ==
    IF ents = << >> THEN << >>
    ELSE LET front == TypeOrder(SubSeq(ents, 1, Len(ents) - 1))
             ty == ents[Len(ents)].type
         IN  IF \E k \in 1..Len(front) : front[k] = ty THEN front ELSE Append(front, ty)

\* positions in ents of the entities of one type, in order
RECURSIVE TypeIndicesFrom(_, _, _)
TypeIndicesFrom(ents, ty, j) ==
    IF j > Len(ents) THEN << >>
    ELSE IF ents[j].type = ty THEN <<j>> \o TypeIndicesFrom(ents, ty, j + 1)
    ELSE TypeIndicesFrom(ents, ty, j + 1)

TypeIndices(ents, ty) == TypeIndicesFrom(ents, ty, 1)

\* GPTResponseParser.parse_merge_groups: groups of at least two indices,
\* none of them negative
parse_merge_groups(raw_groups) ==
    SelectSeq(raw_groups, LAMBDA grp : Len(grp) >= 2 /\ \A k \in 1..Len(grp) : grp[k] >= 0)

\* line 243: a group with an index an earlier group consumed is skipped
GroupSkippedNever(group, processed) == FALSE

GroupSkipped(group, processed) == \E k \in 1..Len(group) : group[k] \in processed

\* lines 246-249, with a group left out whole when one index is out of range
InRangeIndicesAllOrNothing(group, n) ==
    IF \A k \in 1..Len(group) : 0 <= group[k] /\ group[k] < n THEN group ELSE << >>

\* lines 246-249: the indices of a group that are indices of the n entities
InRangeIndices(group, n) == SelectSeq(group, LAMBDA idx : 0 <= idx /\ idx < n)

\* lines 259-269: every member of a group is mapped to the merged entity
RECURSIVE RegisterGroup(_, _, _)
RegisterGroup(group_entities, merged_entity, maps) ==
    IF group_entities = << >> THEN maps
    ELSE LET e == Head(group_entities)
             next == [names |-> RegisterName(e.name, merged_entity.name, maps.names),
                      ids |-> RegisterId(e.id, merged_entity.id, maps.ids)]
         IN  RegisterGroup(Tail(group_entities), merged_entity, next)

\* an entity that passes through unchanged is mapped to itself
RegisterSelf(entity, maps) ==
    [names |-> RegisterName(entity.name, entity.name, maps.names),
     ids |-> RegisterId(entity.id, entity.id, maps.ids)]

RECURSIVE RegisterSelfAll(_, _)
RegisterSelfAll(ents, maps) ==
    IF ents = << >> THEN maps
    ELSE RegisterSelfAll(Tail(ents), RegisterSelf(Head(ents), maps))

(***************************************************************************)
(* EnhancedGraphDataProcessor: the map built without an aligner, the       *)
(* relationship resolver and the simple graph.                             *)
(***************************************************************************)
\* lines 617-622: every id mapped to itself, with the fallback variants
RECURSIVE BasicIdMapping(_, _)
BasicIdMapping(ents, id_map) ==
    IF ents = << >> THEN id_map
    ELSE LET entity_id == Head(ents).id
         IN  BasicIdMapping(Tail(ents),
                IF entity_id # EmptyStr
                THEN _add_id_variants_fallback(entity_id, Put(id_map, entity_id, entity_id))
                ELSE id_map)

\* id_mapping.get(key) is truthy
Resolves(id_map, key) == key \in DOMAIN id_map /\ id_map[key] # EmptyStr

\* as _process_relationships_with_mapping, but a relationship that does not
\* resolve is kept as it is
RECURSIVE _process_relationships_unfiltered(_, _)
_process_relationships_unfiltered(rels, id_map) ==
    IF rels = << >> THEN << >>
    ELSE LET rel == Head(rels)
             rest == _process_relationships_unfiltered(Tail(rels), id_map)
         IN  IF ~Resolves(id_map, rel.source) \/ ~Resolves(id_map, rel.target)
             THEN <<rel>> \o rest
             ELSE <<[rel EXCEPT !.source = id_map[rel.source],
                                !.target = id_map[rel.target]]>> \o rest

\* the list _process_relationships_with_mapping returns
RECURSIVE _process_relationships_with_mapping(_, _)
_process_relationships_with_mapping(rels, id_map) ==
    IF rels = << >> THEN << >>
    ELSE LET rel == Head(rels)
             rest == _process_relationships_with_mapping(Tail(rels), id_map)
         IN  IF ~Resolves(id_map, rel.source) \/ ~Resolves(id_map, rel.target)
             THEN rest
             ELSE <<[rel EXCEPT !.source = id_map[rel.source],
                                !.target = id_map[rel.target]]>> \o rest

\* as SkippedCount, but only an unresolved source is counted
RECURSIVE SkippedCountSourceOnly(_, _)
SkippedCountSourceOnly(rels, id_map) ==
    IF rels = << >> THEN 0
    ELSE (IF ~Resolves(id_map, Head(rels).source) THEN 1 ELSE 0)
         + SkippedCountSourceOnly(Tail(rels), id_map)

\* the local counter skipped_count of _process_relationships_with_mapping
RECURSIVE SkippedCount(_, _)
SkippedCount(rels, id_map) ==
    IF rels = << >> THEN 0
    ELSE LET rel == Head(rels)
         IN  (IF ~Resolves(id_map, rel.source) \/ ~Resolves(id_map, rel.target) THEN 1 ELSE 0)
             + SkippedCount(Tail(rels), id_map)

\* the key of a node of the simple graph
NodeKey(entity) == [pkey |-> entity.id, label |-> entity.name, entity_type |-> Lower(entity.type)]

\* properties.merge_count, 1 when absent
NodeCount(entity) == IF entity.merge_count = 0 THEN 1 ELSE entity.merge_count

RECURSIVE _build_simple_nodes(_)
_build_simple_nodes(ents) ==
    IF ents = << >> THEN [k \in {} |-> 0]
    ELSE LET front == _build_simple_nodes(SubSeq(ents, 1, Len(ents) - 1))
             last == ents[Len(ents)]
         IN  [k \in (DOMAIN front) \cup {NodeKey(last)} |->
                IF k = NodeKey(last) THEN NodeCount(last) ELSE front[k]]

\* the key of an edge of the simple graph
EdgeKey(rel) == [pkey |-> rel.source, skey |-> rel.target, label |-> rel.type]

\* as _build_simple_edges, but an edge seen again keeps the count 1
RECURSIVE _build_simple_edges_no_accumulate(_)
_build_simple_edges_no_accumulate(rels) ==
    IF rels = << >> THEN [k \in {} |-> 0]
    ELSE LET front == _build_simple_edges_no_accumulate(SubSeq(rels, 1, Len(rels) - 1))
             key == EdgeKey(rels[Len(rels)])
         IN  [k \in (DOMAIN front) \cup {key} |-> 1]

RECURSIVE _build_simple_edges(_)
_build_simple_edges(rels) ==
    IF rels = << >> THEN [k \in {} |-> 0]
    ELSE LET front == _build_simple_edges(SubSeq(rels, 1, Len(rels) - 1))
             key == EdgeKey(rels[Len(rels)])
         IN  [k \in (DOMAIN front) \cup {key} |->
                IF k = key THEN (IF k \in DOMAIN front THEN front[k] ELSE 0) + 1
                ELSE front[k]]

(***************************************************************************)
(* Inputs.  Type names, entity names and raw ids are ASCII strings:        *)
(*   Tool = 84 111 111 108, Malware = 77 97 108 119 97 114 101,            *)
(*   '-' = 45, ' ' = 32.                                                   *)
(***************************************************************************)
TypeTool == <<84, 111, 111, 108>>
TypeMalware == <<77, 97, 108, 119, 97, 114, 101>>

Raw(name, type, id) == [name |-> name, type |-> type, id |-> id, merge_count |-> 0]

\* {name: "SSH", type: "Tool", id: "Tool--SSH"}
EntSSH == Raw(<<83, 83, 72>>, TypeTool, <<84, 111, 111, 108, 45, 45, 83, 83, 72>>)
\* {name: "Secure Shell", type: "Tool", id: "tool--secure-shell"}
EntSecureShell ==
    Raw(<<83, 101, 99, 117, 114, 101, 32, 83, 104, 101, 108, 108>>, TypeTool,
        <<116, 111, 111, 108, 45, 45, 115, 101, 99, 117, 114, 101, 45, 115, 104, 101, 108, 108>>)
\* {name: "ssh", type: "Tool", id: "tool--ssh"}
EntSshLower == Raw(<<115, 115, 104>>, TypeTool, <<116, 111, 111, 108, 45, 45, 115, 115, 104>>)
\* {name: "sh", type: "Tool", id: "sh"}: an id without the '--' separator
EntSh == Raw(<<115, 104>>, TypeTool, <<115, 104>>)
\* {name: "ssh", type: "Malware", id: "malware--ssh"}: the name of a Tool entity
EntMalwareSsh == Raw(<<115, 115, 104>>, TypeMalware, <<109, 97, 108, 119, 97, 114, 101, 45, 45, 115, 115, 104>>)
\* {name: "S-H", type: "Tool", id: "unknown--sh"}
EntUnknown == Raw(<<83, 45, 72>>, TypeTool, <<117, 110, 107, 110, 111, 119, 110, 45, 45, 115, 104>>)

\* {name: "SSH", type: "Tool", id: "Tool--SSH"} as a second chunk names it:
\* the same name, type and id, another chunks_info, so another dict
EntSSHSecondChunk ==
    [name |-> EntSSH.name, type |-> EntSSH.type, id |-> EntSSH.id,
     merge_count |-> 0, chunks_info |-> <<[chunk_id |-> 2, chunk_type |-> "text"]>>]

EntityPool ==
    {EntSSH, EntSSHSecondChunk, EntSecureShell, EntSshLower, EntSh, EntMalwareSsh, EntUnknown}

\* every list of at most n entities of the pool
EntityLists(n) == UNION {[1..len -> EntityPool] : len \in 0..n}

\* the ids relationships name: "tool--ssh", "Tool--secure-shell" (a case
\* variant of a raw id) and "tool--unknown-999" (the id of no entity)
RelIdPool ==
    {<<116, 111, 111, 108, 45, 45, 115, 115, 104>>,
     <<84, 111, 111, 108, 45, 45, 115, 101, 99, 117, 114, 101, 45, 115, 104, 101, 108, 108>>,
     <<116, 111, 111, 108, 45, 45, 117, 110, 107, 110, 111, 119, 110, 45, 57, 57, 57>>}

\* relationship type "USE"
RelPool == {[source |-> a, target |-> b, type |-> <<85, 83, 69>>] : a \in RelIdPool, b \in RelIdPool}

RelLists(n) == UNION {[1..len -> RelPool] : len \in 0..n}

\* longest raw id handed to a single registration
MaxIdLen == 5

\* the raw ids of a single registration: the strings of 'T', 's' and '-'
IdStrings(n) == UNION {[1..len -> {84, 115, 45}] : len \in 0..n}

\* the canonical ids of a single registration: "c" and "t--s"
CanonicalPool == {<<99>>, <<116, 45, 45, 115>>}

\* an entity without a name
EntNameless == Raw(EmptyStr, TypeTool, <<116, 111, 111, 108, 45, 45, 120>>)

\* the provenance record _extract_from_single_chunk appends to the chunks_info
\* of every entity of a chunk
ExtractedChunkInfo(chunk_id) == [chunk_id |-> chunk_id, chunk_type |-> "text"]

\* the chunks_info lists of an entity: none, one chunk or two chunks as the
\* extraction step records them, and one record that carries a chunk_index
ChunkInfoLists ==
    {<< >>, <<ExtractedChunkInfo(1)>>, <<ExtractedChunkInfo(1), ExtractedChunkInfo(2)>>,
     <<[chunk_index |-> 1, chunk_type |-> "text"]>>}

WithChunks(entity, chunks_info) ==
    [name |-> entity.name, type |-> entity.type, id |-> entity.id,
     merge_count |-> entity.merge_count, chunks_info |-> chunks_info]

\* the entities a group passed to _merge_entities is drawn from
MergeEntityPool ==
    {WithChunks(e, c) : e \in {EntSSH, EntSshLower, EntSecureShell, EntNameless},
                        c \in ChunkInfoLists}

\* the non-empty groups of at most n entities
MergeGroups(n) == UNION {[1..len -> MergeEntityPool] : len \in 1..n}

\* the groups a clustering reply can hold for n entities: every pair of
\* indices a < b < n, the groups <<0, n>> and <<0, 1, n>> with an index out
\* of range, a group of one index and a group with a negative index
RawGroups(n) ==
    {pair \in (0..(n - 1)) \X (0..(n - 1)) : pair[1] < pair[2]}
        \cup {<<0, n>>, <<0, 1, n>>, <<0>>, <<-1, 0>>}

\* the merge_groups values of a reply, before validation
RawResponses(n) == UNION {[1..len -> RawGroups(n)] : len \in 0..MaxGroups}

(***************************************************************************)
(* State.                                                                  *)
(***************************************************************************)
VARIABLES
    entities,                \* all_entities: the raw entities of all chunks, in order
    relationships,           \* all_relationships: the raw relationships of all chunks
    mode,                    \* "disabled": no aligner; "llm": aligner with api_manager;
                             \* "rule": aligner without api_manager
    pc,                      \* position of the run
    aligned_entities,        \* aligned_entities of _rule_align, _gpt_align or the caller
    name_mapping,
    id_mapping,
    processed_names,         \* _rule_align
    members,                 \* history: input positions folded into each aligned entity
    pos,                     \* loop position of _rule_align
    type_order,              \* keys of entities_by_type
    t,                       \* loop position of _gpt_align over the types
    api_response,            \* history: merge_groups of the current reply, before validation
    merge_groups,            \* validated groups of the current reply
    g,                       \* loop position of _parse_align_response over the groups
    processed_indices,       \* _parse_align_response
    type_aligned,            \* aligned_entities of _parse_align_response
    type_name_mapping,
    type_id_mapping,
    type_members,            \* history, as members, for the current type
    api_calls,               \* history: clustering calls made so far
    api_failed,              \* history: a clustering call raised
    processed_relationships, \* result of _process_relationships_with_mapping
    skipped_count,           \* its local counter, written to the log only
    simple_nodes,            \* simple_result[0]["nodes"]
    simple_edges,            \* simple_result[0]["edges"]
    raw_id,                  \* original_id of a single registration
    canonical_id             \* mapped_id of a single registration

\* a single call of _merge_entities
VARIABLES
    merge_group,          \* the entities passed to _merge_entities
    merge_result            \* the entity it returns, with the fields of its properties

\* extract_apt41_subgraph
VARIABLES
    all_nodes,               \* graph_data["nodes"]: node key -> count
    all_edges,               \* graph_data["edges"]: edge key -> count
    visited_nodes,           \* pkeys reached so far
    visited_edges,           \* edge keys reached so far
    to_visit,                \* pkeys of the next level
    hop_count,
    final_nodes,             \* result[0]["nodes"]
    final_edges              \* result[0]["edges"]

\* GraphEnhancer.enhance_knowledge_graph
VARIABLES
    kg_data,                 \* the graphs to enhance, in order
    es_available,            \* self.es_client is set
    enable_deduplication,    \* self.enable_deduplication
    graph_idx,               \* loop position over kg_data, from 1
    enhanced_kg_data,        \* the graphs returned so far
    chunk_nodes,             \* enhanced_chunk["nodes"] of the graph at work
    chunk_edges,             \* enhanced_chunk["edges"] of the graph at work
    procedure_entities,      \* node keys of the procedures of the graph at work
    proc_pos,                \* loop position over procedure_entities
    es_response,             \* history: the hits of the latest search, in order
    es_raised,               \* history: the latest search raised
    chunk_nodes_before,      \* history: chunk_nodes before the latest procedure
    chunk_edges_before,      \* history: chunk_edges before the latest procedure
    global_enhanced_procedures,
    enhancement_stats,       \* the counters of the statistics
    touched_procedures       \* history: keys of the procedures for which the
                             \* graph at work was changed

\* OpenAIAPIManager.call_api, as align_entities uses it
VARIABLES
    max_retries,             \* self.max_retries
    retry_count,
    last_exception,          \* kind of the exception of the latest attempt
    attempts,                \* history: requests sent to the client
    sleeps,                  \* history: backoff waits made
    thread_result,           \* what the body of call_api ended with
    caller_result,           \* what the caller of call_api got from the wrapper
    align_path               \* how align_entities went on after the call

\* KnowledgeGraphExtractor._extract_with_threading
VARIABLES
    docs,                    \* the chunks, in order
    max_workers,             \* self.max_workers
    submitted,               \* chunks handed to the executor so far
    worker,                  \* per chunk: "queued", "running" or "done"
    future,                  \* per chunk: what its future holds when done
    results,                 \* the preallocated list of results
    completed_count,
    successful_extractions,
    failed_extractions,
    collected,               \* history: chunk positions in the order of collection
    extract_return           \* the list _extract_with_threading returned

inputVars == <<entities, mode, raw_id, canonical_id>>
poolVars == <<submitted, worker, future>>
collectVars == <<results, completed_count, successful_extractions, failed_extractions, collected>>
extractVars == <<docs, max_workers, poolVars, collectVars, extract_return>>
retryVars == <<retry_count, last_exception, attempts, sleeps>>
callVars == <<max_retries, retryVars, thread_result, caller_result, align_path>>
mergeVars == <<merge_group, merge_result>>
enhanceInput == <<kg_data, es_available, enable_deduplication>>
enhanceChunk == <<chunk_nodes, chunk_edges, procedure_entities, proc_pos, es_response, es_raised,
                  chunk_nodes_before, chunk_edges_before>>
enhanceVars == <<enhanceInput, graph_idx, enhanced_kg_data, enhanceChunk,
                 global_enhanced_procedures, enhancement_stats, touched_procedures>>
subgraphInput == <<all_nodes, all_edges>>
traversalVars == <<visited_nodes, visited_edges, to_visit, hop_count>>
subgraphVars == <<subgraphInput, traversalVars, final_nodes, final_edges>>
\* the state of the components other than the aligner and the graph builder
otherVars == <<mergeVars, subgraphVars, enhanceVars>>
\* the state of the services the components call
serviceVars == <<callVars, extractVars>>
ruleVars == <<processed_names, pos>>
alignVars == <<aligned_entities, name_mapping, id_mapping, members>>
gptVars == <<type_order, t>>
parseVars == <<api_response, merge_groups, g, processed_indices, type_aligned, type_name_mapping,
               type_id_mapping, type_members>>
apiVars == <<api_calls, api_failed>>
graphVars == <<relationships, processed_relationships, skipped_count, simple_nodes, simple_edges>>

\* the state of the aligner and the graph builder, without the position
pipelineVars == <<inputVars, ruleVars, alignVars, gptVars, parseVars, apiVars, graphVars>>

vars == <<pipelineVars, pc, otherVars, serviceVars>>

\* no call of _merge_entities on its own
MergeIdle ==
    /\ merge_group = << >>
    /\ merge_result = << >>

\* no subgraph extraction
SubgraphIdle ==
    /\ all_nodes = [k \in {} |-> 0]
    /\ all_edges = [k \in {} |-> 0]
    /\ visited_nodes = {}
    /\ visited_edges = {}
    /\ to_visit = {}
    /\ hop_count = 0
    /\ final_nodes = [k \in {} |-> 0]
    /\ final_edges = [k \in {} |-> 0]

\* enhancement_stats before any graph is handled (lines 157-166)
InitialStats ==
    [procedures_found |-> 0, procedures_enhanced |-> 0, es_queries |-> 0,
     matched_results |-> 0, new_entities_added |-> 0, new_relationships_added |-> 0]

\* the enhancer at rest, for a given input
EnhanceInit(graphs, client, dedup) ==
    /\ kg_data = graphs
    /\ es_available = client
    /\ enable_deduplication = dedup
    /\ graph_idx = 1
    /\ enhanced_kg_data = << >>
    /\ chunk_nodes = [k \in {} |-> 0]
    /\ chunk_edges = [k \in {} |-> 0]
    /\ procedure_entities = << >>
    /\ proc_pos = 1
    /\ es_response = << >>
    /\ es_raised = FALSE
    /\ chunk_nodes_before = [k \in {} |-> 0]
    /\ chunk_edges_before = [k \in {} |-> 0]
    /\ global_enhanced_procedures = {}
    /\ enhancement_stats = InitialStats
    /\ touched_procedures = {}

\* no enhancement
EnhanceIdle == EnhanceInit(<< >>, FALSE, TRUE)

\* call_api on entry, for a given configuration (src/utils.py lines 186-187)
CallInit(retries) ==
    /\ max_retries = retries
    /\ retry_count = 0
    /\ last_exception = "None"
    /\ attempts = 0
    /\ sleeps = 0
    /\ thread_result = "pending"
    /\ caller_result = "pending"
    /\ align_path = "none"

\* no call of call_api on its own
CallIdle == CallInit(0)

\* a slot of the preallocated list that holds no result yet
None == [none |-> TRUE]

\* _extract_with_threading on entry, for given chunks and pool size
\* (src/knowledge_graph_extractor.py lines 411-413)
ExtractInit(chunks, workers) ==
    /\ docs = chunks
    /\ max_workers = workers
    /\ submitted = 0
    /\ worker = [i \in 1..Len(chunks) |-> "queued"]
    /\ future = [i \in 1..Len(chunks) |-> None]
    /\ results = [i \in 1..Len(chunks) |-> None]
    /\ completed_count = 0
    /\ successful_extractions = 0
    /\ failed_extractions = 0
    /\ collected = << >>
    /\ extract_return = << >>

\* no extraction
ExtractIdle == ExtractInit(<< >>, 1)

\* the aligner and the graph builder before any step, for a given input
PipelineInit(ents, m, start, r, c) ==
    /\ entities = ents
    /\ mode = m
    /\ raw_id = r
    /\ canonical_id = c
    /\ relationships = << >>
    /\ pc = start
    /\ aligned_entities = << >>
    /\ name_mapping = EmptyMap
    /\ id_mapping = EmptyMap
    /\ processed_names = {}
    /\ members = << >>
    /\ pos = 1
    /\ type_order = << >>
    /\ t = 1
    /\ api_response = << >>
    /\ merge_groups = << >>
    /\ g = 1
    /\ processed_indices = {}
    /\ type_aligned = << >>
    /\ type_name_mapping = EmptyMap
    /\ type_id_mapping = EmptyMap
    /\ type_members = << >>
    /\ api_calls = 0
    /\ api_failed = FALSE
    /\ processed_relationships = << >>
    /\ skipped_count = 0
    /\ simple_nodes = [k \in {} |-> 0]
    /\ simple_edges = [k \in {} |-> 0]

\* the state before any step, for a given input of the aligner
InitWith(ents, m, start, r, c) ==
    /\ PipelineInit(ents, m, start, r, c)
    /\ MergeIdle
    /\ SubgraphIdle
    /\ EnhanceIdle
    /\ CallIdle
    /\ ExtractIdle

(***************************************************************************)
(* EntityAligner.align_entities and _rule_align.                           *)
(***************************************************************************)
\* align_entities: _gpt_align when there is an api_manager, else _rule_align
AlignEntities ==
    /\ pc = "start"
    /\ mode \in {"llm", "rule"}
    /\ IF mode = "llm"
       THEN /\ pc' = "gpt"
            /\ type_order' = TypeOrder(entities)
       ELSE /\ pc' = "rule"
            /\ UNCHANGED type_order
    /\ UNCHANGED <<serviceVars, inputVars, otherVars, ruleVars, alignVars, t, parseVars, apiVars, graphVars>>

\* one iteration of the loop of _rule_align
RuleAlignStep ==
    /\ pc = "rule"
    /\ pos <= Len(entities)
    /\ LET st == RuleAlignBody([aligned |-> aligned_entities, names |-> name_mapping,
                                ids |-> id_mapping, processed |-> processed_names,
                                members |-> members], entities, pos)
       IN  /\ aligned_entities' = st.aligned
           /\ name_mapping' = st.names
           /\ id_mapping' = st.ids
           /\ processed_names' = st.processed
           /\ members' = st.members
    /\ pos' = pos + 1
    /\ UNCHANGED <<serviceVars, inputVars, otherVars, pc, gptVars, parseVars, apiVars, graphVars>>

\* _rule_align returns its triple
RuleAlignReturn ==
    /\ pc = "rule"
    /\ pos > Len(entities)
    /\ pc' = "aligned"
    /\ UNCHANGED <<serviceVars, inputVars, otherVars, ruleVars, alignVars, gptVars, parseVars, apiVars, graphVars>>

(***************************************************************************)
(* EntityAligner._gpt_align, _gpt_align_by_type, _parse_align_response.    *)
(***************************************************************************)
\* positions in entities of the entities of the current type
CurrentIndices == TypeIndices(entities, type_order[t])
\* type_entities of the current type
CurrentEntities == [k \in 1..Len(CurrentIndices) |-> entities[CurrentIndices[k]]]

\* a type with at most one entity passes through (lines 94-104)
GptPassThroughType ==
    /\ pc = "gpt"
    /\ t <= Len(type_order)
    /\ Len(CurrentIndices) <= 1
    /\ LET maps == RegisterSelfAll(CurrentEntities, [names |-> name_mapping, ids |-> id_mapping])
       IN  /\ aligned_entities' = aligned_entities \o CurrentEntities
           /\ name_mapping' = maps.names
           /\ id_mapping' = maps.ids
           /\ members' = members \o [k \in 1..Len(CurrentIndices) |-> {CurrentIndices[k]}]
    /\ t' = t + 1
    /\ UNCHANGED <<serviceVars, inputVars, otherVars, pc, ruleVars, type_order, parseVars, apiVars, graphVars>>

\* as CallApiRaises, but _rule_align goes on with what _gpt_align had gathered
CallApiRaisesKeepsPartial ==
    /\ pc = "gpt"
    /\ t <= Len(type_order)
    /\ Len(CurrentIndices) > 1
    /\ api_calls' = api_calls + 1
    /\ api_failed' = TRUE
    /\ pc' = "rule"
    /\ pos' = 1
    /\ processed_names' = {}
    /\ UNCHANGED <<serviceVars, inputVars, otherVars, alignVars, gptVars, parseVars, graphVars>>

\* call_api raises: the exception leaves _gpt_align_by_type and _gpt_align,
\* align_entities catches it and starts _rule_align on the whole input
CallApiRaises ==
    /\ pc = "gpt"
    /\ t <= Len(type_order)
    /\ Len(CurrentIndices) > 1
    /\ api_calls' = api_calls + 1
    /\ api_failed' = TRUE
    /\ pc' = "rule"
    /\ pos' = 1
    /\ processed_names' = {}
    /\ aligned_entities' = << >>
    /\ name_mapping' = EmptyMap
    /\ id_mapping' = EmptyMap
    /\ members' = << >>
    /\ UNCHANGED <<serviceVars, inputVars, otherVars, gptVars, parseVars, graphVars>>

\* call_api returns a reply; parse_merge_groups validates its groups and
\* _parse_align_response starts
CallApiResponds ==
    /\ pc = "gpt"
    /\ t <= Len(type_order)
    /\ Len(CurrentIndices) > 1
    /\ \E raw \in RawResponses(Len(CurrentIndices)) :
          /\ api_response' = raw
          /\ merge_groups' = parse_merge_groups(raw)
    /\ api_calls' = api_calls + 1
    /\ pc' = "parse"
    /\ g' = 1
    /\ processed_indices' = {}
    /\ type_aligned' = << >>
    /\ type_name_mapping' = EmptyMap
    /\ type_id_mapping' = EmptyMap
    /\ type_members' = << >>
    /\ UNCHANGED <<serviceVars, inputVars, otherVars, ruleVars, alignVars, gptVars, api_failed, graphVars>>

\* as ParseNoGroups, but the type is handed to _rule_align
ParseNoGroupsRuleAlign ==
    /\ pc = "parse"
    /\ merge_groups = << >>
    /\ LET st == RuleAlignFrom(EmptyAlignState, CurrentEntities, 1)
       IN  /\ type_aligned' = st.aligned
           /\ type_name_mapping' = st.names
           /\ type_id_mapping' = st.ids
           /\ type_members' = [k \in 1..Len(st.members) |->
                                  {CurrentIndices[i] : i \in st.members[k]}]
    /\ pc' = "type_done"
    /\ UNCHANGED <<serviceVars, inputVars, otherVars, ruleVars, alignVars, gptVars, api_response, merge_groups, g,
                   processed_indices, apiVars, graphVars>>

\* no valid group: the entities of the type are returned as they are (lines 215-234)
ParseNoGroups ==
    /\ pc = "parse"
    /\ merge_groups = << >>
    /\ LET maps == RegisterSelfAll(CurrentEntities, [names |-> EmptyMap, ids |-> EmptyMap])
       IN  /\ type_aligned' = CurrentEntities
           /\ type_name_mapping' = maps.names
           /\ type_id_mapping' = maps.ids
           /\ type_members' = [k \in 1..Len(CurrentIndices) |-> {CurrentIndices[k]}]
    /\ pc' = "type_done"
    /\ UNCHANGED <<serviceVars, inputVars, otherVars, ruleVars, alignVars, gptVars, api_response, merge_groups, g,
                   processed_indices, apiVars, graphVars>>

\* one iteration of the loop over the groups (lines 242-269)
ParseGroupStep ==
    /\ pc = "parse"
    /\ merge_groups # << >>
    /\ g <= Len(merge_groups)
    /\ LET group == merge_groups[g]
           in_range == InRangeIndices(group, Len(CurrentEntities))
           group_entities == [k \in 1..Len(in_range) |-> CurrentEntities[in_range[k] + 1]]
       IN  IF GroupSkipped(group, processed_indices)
           THEN UNCHANGED <<processed_indices, type_aligned, type_name_mapping,
                            type_id_mapping, type_members>>
           ELSE /\ processed_indices' = processed_indices \cup {in_range[k] : k \in 1..Len(in_range)}
                /\ IF group_entities # << >>
                   THEN LET merged_entity == _merge_entities(group_entities)
                            maps == RegisterGroup(group_entities, merged_entity,
                                       [names |-> type_name_mapping, ids |-> type_id_mapping])
                        IN  /\ type_aligned' = Append(type_aligned, merged_entity)
                            /\ type_name_mapping' = maps.names
                            /\ type_id_mapping' = maps.ids
                            /\ type_members' = Append(type_members,
                                  {CurrentIndices[in_range[k] + 1] : k \in 1..Len(in_range)})
                   ELSE UNCHANGED <<type_aligned, type_name_mapping, type_id_mapping, type_members>>
    /\ g' = g + 1
    /\ UNCHANGED <<serviceVars, inputVars, otherVars, pc, ruleVars, alignVars, gptVars, api_response,
                   merge_groups, apiVars, graphVars>>

\* indices of 0..n-1 that no group consumed, in order
RECURSIVE UngroupedFrom(_, _, _)
UngroupedFrom(idx, n, done) ==
    IF idx >= n THEN << >>
    ELSE IF idx \in done THEN UngroupedFrom(idx + 1, n, done)
    ELSE <<idx>> \o UngroupedFrom(idx + 1, n, done)

\* the entities no group consumed pass through, and the triple is returned
\* (lines 271-286)
ParseUngrouped ==
    /\ pc = "parse"
    /\ merge_groups # << >>
    /\ g > Len(merge_groups)
    /\ LET rest == UngroupedFrom(0, Len(CurrentEntities), processed_indices)
           rest_entities == [k \in 1..Len(rest) |-> CurrentEntities[rest[k] + 1]]
           maps == RegisterSelfAll(rest_entities,
                      [names |-> type_name_mapping, ids |-> type_id_mapping])
       IN  /\ type_aligned' = type_aligned \o rest_entities
           /\ type_name_mapping' = maps.names
           /\ type_id_mapping' = maps.ids
           /\ type_members' = type_members \o [k \in 1..Len(rest) |-> {CurrentIndices[rest[k] + 1]}]
    /\ pc' = "type_done"
    /\ UNCHANGED <<serviceVars, inputVars, otherVars, ruleVars, alignVars, gptVars, api_response, merge_groups, g,
                   processed_indices, apiVars, graphVars>>

\* _gpt_align takes over the result of the type (lines 107-111)
GptMergeType ==
    /\ pc = "type_done"
    /\ aligned_entities' = aligned_entities \o type_aligned
    /\ name_mapping' = Update(name_mapping, type_name_mapping)
    /\ id_mapping' = Update(id_mapping, type_id_mapping)
    /\ members' = members \o type_members
    /\ t' = t + 1
    /\ pc' = "gpt"
    /\ UNCHANGED <<serviceVars, inputVars, otherVars, ruleVars, type_order, parseVars, apiVars, graphVars>>

\* _gpt_align returns its triple
GptAlignReturn ==
    /\ pc = "gpt"
    /\ t > Len(type_order)
    /\ pc' = "aligned"
    /\ UNCHANGED <<serviceVars, inputVars, otherVars, ruleVars, alignVars, gptVars, parseVars, apiVars, graphVars>>

(***************************************************************************)
(* EnhancedGraphDataProcessor.extract_pure_graph_data.                     *)
(***************************************************************************)
\* no aligner: the entities are kept and every id is mapped to itself (lines 615-622)
AlignDisabled ==
    /\ pc = "start"
    /\ mode = "disabled"
    /\ aligned_entities' = entities
    /\ name_mapping' = EmptyMap
    /\ id_mapping' = BasicIdMapping(entities, EmptyMap)
    /\ members' = [k \in 1..Len(entities) |-> {k}]
    /\ pc' = "aligned"
    /\ UNCHANGED <<serviceVars, inputVars, otherVars, ruleVars, gptVars, parseVars, apiVars, graphVars>>

\* _process_relationships_with_mapping on the relationships of the chunks
ProcessRelationships ==
    /\ pc = "aligned"
    /\ \E rels \in RelLists(MaxRels) :
          /\ relationships' = rels
          /\ processed_relationships' = _process_relationships_with_mapping(rels, id_mapping)
          /\ skipped_count' = SkippedCount(rels, id_mapping)
    /\ pc' = "resolved"
    /\ UNCHANGED <<serviceVars, inputVars, otherVars, ruleVars, alignVars, gptVars, parseVars, apiVars,
                   simple_nodes, simple_edges>>

\* _build_simple_graph_data
BuildGraph ==
    /\ pc = "resolved"
    /\ simple_nodes' = _build_simple_nodes(aligned_entities)
    /\ simple_edges' = _build_simple_edges(processed_relationships)
    /\ pc' = "done"
    /\ UNCHANGED <<serviceVars, inputVars, otherVars, ruleVars, alignVars, gptVars, parseVars, apiVars,
                   relationships, processed_relationships, skipped_count>>

(***************************************************************************)
(* Specifications.                                                         *)
(***************************************************************************)
\* longest list of raw entities of a whole pipeline run
MaxPipelineEntities == 2

AlignSteps ==
    \/ AlignEntities
    \/ RuleAlignStep
    \/ RuleAlignReturn
    \/ GptPassThroughType
    \/ CallApiRaises
    \/ CallApiResponds
    \/ ParseNoGroups
    \/ ParseGroupStep
    \/ ParseUngrouped
    \/ GptMergeType
    \/ GptAlignReturn

\* extract_pure_graph_data on the entities and relationships of a run
Init ==
    \E ents \in EntityLists(MaxPipelineEntities), m \in {"disabled", "llm"} :
        InitWith(ents, m, "start", EmptyStr, EmptyStr)

Next ==
    \/ AlignSteps
    \/ AlignDisabled
    \/ ProcessRelationships
    \/ BuildGraph

Spec == Init /\ [][Next]_vars

\* align_entities alone, with and without an api_manager
InitAlign ==
    \E ents \in EntityLists(MaxEntities), m \in {"llm", "rule"} :
        InitWith(ents, m, "start", EmptyStr, EmptyStr)

NextAlign == AlignSteps

SpecAlign == InitAlign /\ [][NextAlign]_vars

\* a single registration in an empty identity map
\* id_mapping[original_id] = mapped_id; self._add_id_variants(...) (lines 267-269, 378-380)
RegisterVariants ==
    /\ pc = "register"
    /\ id_mapping' = RegisterId(raw_id, canonical_id, id_mapping)
    /\ pc' = "registered"
    /\ UNCHANGED <<serviceVars, inputVars, otherVars, ruleVars, aligned_entities, name_mapping, members, gptVars,
                   parseVars, apiVars, graphVars>>

\* id_mapping[entity_id] = entity_id; self._add_id_variants_fallback(...) (lines 620-622)
RegisterFallback ==
    /\ pc = "register"
    /\ raw_id # EmptyStr
    /\ id_mapping' = _add_id_variants_fallback(raw_id, Put(id_mapping, raw_id, raw_id))
    /\ pc' = "registered_fallback"
    /\ UNCHANGED <<serviceVars, inputVars, otherVars, ruleVars, aligned_entities, name_mapping, members, gptVars,
                   parseVars, apiVars, graphVars>>

InitRegister ==
    \E r \in IdStrings(MaxIdLen), c \in CanonicalPool : InitWith(<< >>, "rule", "register", r, c)

NextRegister == RegisterVariants \/ RegisterFallback

SpecRegister == InitRegister /\ [][NextRegister]_vars

\* a single call of _merge_entities on a group
MergeEntities ==
    /\ pc = "merge"
    /\ merge_result' = [entity |-> _merge_entities(merge_group),
                         fields |-> MergedFields(merge_group)]
    /\ pc' = "merged"
    /\ UNCHANGED <<serviceVars, pipelineVars, merge_group, subgraphVars, enhanceVars>>

InitMerge ==
    /\ PipelineInit(<< >>, "disabled", "merge", EmptyStr, EmptyStr)
    /\ merge_group \in MergeGroups(MaxEntities)
    /\ merge_result = << >>
    /\ SubgraphIdle
    /\ EnhanceIdle
    /\ CallIdle
    /\ ExtractIdle

NextMerge == MergeEntities

SpecMerge == InitMerge /\ [][NextMerge]_vars

(***************************************************************************)
(* generate_sub_graph.extract_apt41_subgraph: the subgraph reachable from  *)
(* the nodes whose pkey holds "threatactor--apt41".  A node key is a       *)
(* record [pkey, label, entity_type], an edge key a record                 *)
(* [pkey, skey, label].  The lists of the traversal are kept as sets: the  *)
(* order of a level changes only the order of the log.                     *)
(***************************************************************************)
\* "threatactor--apt41"
Apt41Marker == <<116, 104, 114, 101, 97, 116, 97, 99, 116, 111, 114, 45, 45, 97, 112, 116, 52, 49>>

\* the literal of the test that ends the traversal (hop_count > 10)
hop_limit == 10

\* the pkeys of the nodes of a nodes dict
Pkeys(nodes) == {node_key.pkey : node_key \in DOMAIN nodes}

\* outgoing_edges[pkey] (lines 36-47)
OutgoingEdges(edges, pkey) == {edge_key \in DOMAIN edges : edge_key.pkey = pkey}

\* apt41_start_nodes (lines 57-70)
StartNodes(nodes) == {pkey \in Pkeys(nodes) : Contains(Apt41Marker, pkey)}

\* as BfsLevel, but the edges into the current level are followed too
BfsLevelUndirected(edges, st) ==
    LET reached == UNION {OutgoingEdges(edges, pkey) : pkey \in st.to_visit}
        incoming == {edge_key \in DOMAIN edges : edge_key.skey \in st.to_visit}
        new_nodes == ({edge_key.skey : edge_key \in reached}
                        \cup {edge_key.pkey : edge_key \in incoming}) \ st.visited_nodes
    IN  [visited_nodes |-> st.visited_nodes \cup new_nodes,
         visited_edges |-> st.visited_edges \cup reached \cup incoming,
         to_visit |-> new_nodes,
         hop_count |-> st.hop_count + 1]

\* as BfsLevel, but visited_nodes is replaced by the new level
BfsLevelFrontierOnly(edges, st) ==
    LET reached == UNION {OutgoingEdges(edges, pkey) : pkey \in st.to_visit}
        new_nodes == {edge_key.skey : edge_key \in reached} \ st.visited_nodes
    IN  [visited_nodes |-> new_nodes,
         visited_edges |-> st.visited_edges \cup reached,
         to_visit |-> new_nodes,
         hop_count |-> st.hop_count + 1]

\* as BfsLevel, but a node is marked visited when it is expanded
BfsLevelMarkOnExpand(edges, st) ==
    LET reached == UNION {OutgoingEdges(edges, pkey) : pkey \in st.to_visit}
        new_nodes == {edge_key.skey : edge_key \in reached} \ (st.visited_nodes \cup st.to_visit)
    IN  [visited_nodes |-> st.visited_nodes \cup st.to_visit,
         visited_edges |-> st.visited_edges \cup reached,
         to_visit |-> new_nodes,
         hop_count |-> st.hop_count + 1]

\* one pass of the while loop (lines 79-117): every outgoing edge of the
\* current level is visited, and every target not yet visited is marked
\* visited and queued for the next level
BfsLevel(edges, st) ==
    LET reached == UNION {OutgoingEdges(edges, pkey) : pkey \in st.to_visit}
        new_nodes == {edge_key.skey : edge_key \in reached} \ st.visited_nodes
    IN  [visited_nodes |-> st.visited_nodes \cup new_nodes,
         visited_edges |-> st.visited_edges \cup reached,
         to_visit |-> new_nodes,
         hop_count |-> st.hop_count + 1]

\* the state of the traversal after step 1
BfsStart(nodes) ==
    [visited_nodes |-> StartNodes(nodes), visited_edges |-> {},
     to_visit |-> StartNodes(nodes), hop_count |-> 0]

\* the while loop (lines 77-125): it ends when no node is left to visit, or
\* after the pass that makes hop_count exceed the cap
RECURSIVE BfsRun(_, _, _)
BfsRun(edges, st, cap) ==
    IF st.to_visit = {} THEN st
    ELSE LET next == BfsLevel(edges, st)
         IN  IF next.hop_count > cap THEN next ELSE BfsRun(edges, next, cap)

\* step 3 (lines 131-149): the nodes and edges that were visited, with their counts
CollectNodes(nodes, visited) ==
    [node_key \in {k \in DOMAIN nodes : k.pkey \in visited} |-> nodes[node_key]]
CollectEdges(edges, visited) ==
    [edge_key \in {k \in DOMAIN edges : k \in visited} |-> edges[edge_key]]

\* the graph extract_apt41_subgraph returns for a hop cap; without a start
\* node it returns no graph, which is kept as the empty graph
extract_apt41_subgraph(nodes, edges, cap) ==
    IF StartNodes(nodes) = {}
    THEN [nodes |-> [k \in {} |-> 0], edges |-> [k \in {} |-> 0]]
    ELSE LET st == BfsRun(edges, BfsStart(nodes), cap)
         IN  [nodes |-> CollectNodes(nodes, st.visited_nodes),
              edges |-> CollectEdges(edges, st.visited_edges)]

\* step 1 found a start node
FindStartNodes ==
    /\ pc = "load"
    /\ StartNodes(all_nodes) # {}
    /\ visited_nodes' = BfsStart(all_nodes).visited_nodes
    /\ to_visit' = BfsStart(all_nodes).to_visit
    /\ pc' = "bfs"
    /\ UNCHANGED <<serviceVars, pipelineVars, mergeVars, enhanceVars, subgraphInput, visited_edges, hop_count,
                   final_nodes, final_edges>>

\* step 1 found no start node: [] is returned (lines 72-74)
NoStartNodes ==
    /\ pc = "load"
    /\ StartNodes(all_nodes) = {}
    /\ pc' = "extracted"
    /\ UNCHANGED <<serviceVars, pipelineVars, mergeVars, enhanceVars, subgraphVars>>

\* one pass of the while loop, with the test of the cap at its end
BfsHop ==
    /\ pc = "bfs"
    /\ to_visit # {}
    /\ LET next == BfsLevel(all_edges, [visited_nodes |-> visited_nodes,
                       visited_edges |-> visited_edges, to_visit |-> to_visit,
                       hop_count |-> hop_count])
       IN  /\ visited_nodes' = next.visited_nodes
           /\ visited_edges' = next.visited_edges
           /\ to_visit' = next.to_visit
           /\ hop_count' = next.hop_count
           /\ pc' = IF next.hop_count > hop_limit THEN "collect" ELSE "bfs"
    /\ UNCHANGED <<serviceVars, pipelineVars, mergeVars, enhanceVars, subgraphInput, final_nodes, final_edges>>

\* the while loop ends because no node is left to visit
BfsExhausted ==
    /\ pc = "bfs"
    /\ to_visit = {}
    /\ pc' = "collect"
    /\ UNCHANGED <<serviceVars, pipelineVars, mergeVars, enhanceVars, subgraphVars>>

\* step 3 and the return
CollectSubgraph ==
    /\ pc = "collect"
    /\ final_nodes' = CollectNodes(all_nodes, visited_nodes)
    /\ final_edges' = CollectEdges(all_edges, visited_edges)
    /\ pc' = "extracted"
    /\ UNCHANGED <<serviceVars, pipelineVars, mergeVars, enhanceVars, subgraphInput, traversalVars>>

\* longest chain of nodes behind the start node
MaxChain == 12

\* "tool", "threatactor" and "USE"
TypeToolLower == <<116, 111, 111, 108>>
TypeThreatActor == <<116, 104, 114, 101, 97, 116, 97, 99, 116, 111, 114>>
LabelUse == <<85, 83, 69>>

\* the pkeys "na", "nb", ... of the chain, a second start node, a pkey
\* that no node has, and the pkey "up" of a node no edge leads to
ChainPkey(k) == <<110, 96 + k>>
SecondStartPkey == Apt41Marker \o <<98>>
MissingPkey == <<122, 122>>
UpstreamPkey == <<117, 112>>

GraphNode(pkey, entity_type) == [pkey |-> pkey, label |-> pkey, entity_type |-> entity_type]
GraphEdge(pkey, skey) == [pkey |-> pkey, skey |-> skey, label |-> LabelUse]

\* the edges a graph may hold next to its chain: back to the start node
\* from the second node of the chain and from the node behind the cap of the
\* code, a short cut, a loop, an edge to a pkey without node, an edge from
\* the second start node, and an edge from the upstream node to the start node
ExtraEdges ==
    {GraphEdge(ChainPkey(2), Apt41Marker), GraphEdge(Apt41Marker, ChainPkey(2)),
     GraphEdge(ChainPkey(1), ChainPkey(1)), GraphEdge(ChainPkey(1), MissingPkey),
     GraphEdge(SecondStartPkey, ChainPkey(3)),
     GraphEdge(ChainPkey(hop_limit + 1), Apt41Marker),
     GraphEdge(UpstreamPkey, Apt41Marker)}

\* the nodes dict: the start nodes, a chain of len nodes and the upstream node
GraphNodes(starts, len) ==
    LET keys == {GraphNode(pkey, TypeThreatActor) : pkey \in starts}
                \cup {GraphNode(ChainPkey(k), TypeToolLower) : k \in 1..len}
                \cup {GraphNode(UpstreamPkey, TypeToolLower)}
    IN  [node_key \in keys |-> 1]

\* the edges dict: the chain behind the first start node, and some extra edges
GraphEdges(len, extra) ==
    LET keys == (IF len >= 1 THEN {GraphEdge(Apt41Marker, ChainPkey(1))} ELSE {})
                \cup {GraphEdge(ChainPkey(k), ChainPkey(k + 1)) : k \in 1..(len - 1)}
                \cup extra
    IN  [edge_key \in keys |-> 1]

InitSubgraph ==
    /\ PipelineInit(<< >>, "disabled", "load", EmptyStr, EmptyStr)
    /\ MergeIdle
    /\ EnhanceIdle
    /\ CallIdle
    /\ ExtractIdle
    /\ \E starts \in {{}, {Apt41Marker}, {Apt41Marker, SecondStartPkey}},
          len \in 0..MaxChain, extra \in SUBSET ExtraEdges :
          /\ all_nodes = GraphNodes(starts, len)
          /\ all_edges = GraphEdges(len, extra)
    /\ visited_nodes = {}
    /\ visited_edges = {}
    /\ to_visit = {}
    /\ hop_count = 0
    /\ final_nodes = [k \in {} |-> 0]
    /\ final_edges = [k \in {} |-> 0]

NextSubgraph == FindStartNodes \/ NoStartNodes \/ BfsHop \/ BfsExhausted \/ CollectSubgraph

SpecSubgraph == InitSubgraph /\ [][NextSubgraph]_vars

(***************************************************************************)
(* graph_enhancer.GraphEnhancer.  A node key of a graph is the record of   *)
(* the JSON object of the key, an edge key likewise; a score is kept in    *)
(* hundredths.                                                             *)
(***************************************************************************)
\* config defaults of __init__ (lines 41-44)
top_k == 3
es_similarity_threshold == 70
max_enhance_per_procedure == 2

\* "procedures", "procedure", "tactics", "techniques", "HAS", "LAUNCH",
\* "ES_enhancement"
TypeProcedures == <<112, 114, 111, 99, 101, 100, 117, 114, 101, 115>>
TypeProcedure == <<112, 114, 111, 99, 101, 100, 117, 114, 101>>
TypeTactics == <<116, 97, 99, 116, 105, 99, 115>>
TypeTechniques == <<116, 101, 99, 104, 110, 105, 113, 117, 101, 115>>
LabelHas == <<72, 65, 83>>
LabelLaunch == <<76, 65, 85, 78, 67, 72>>
SourceEs == <<69, 83, 95, 101, 110, 104, 97, 110, 99, 101, 109, 101, 110, 116>>

\* not (text and text.strip())
IsBlank(text) == \A k \in 1..Len(text) : IsSpaceChar(text[k])

\* str.strip()
RECURSIVE LStrip(_)
LStrip(text) == IF text # << >> /\ IsSpaceChar(Head(text)) THEN LStrip(Tail(text)) ELSE text
RECURSIVE RStrip(_)
RStrip(text) ==
    IF text # << >> /\ IsSpaceChar(text[Len(text)])
    THEN RStrip(SubSeq(text, 1, Len(text) - 1))
    ELSE text
Strip(text) == RStrip(LStrip(text))

\* a character of \w or a dot
IsWordOrDot(c) == IsLowerChar(c) \/ IsUpperChar(c) \/ c \in 48..57 \/ c = 95 \/ c = 46

\* _generate_simple_pkey: re.sub(r'[^\w\.]', '', label.lower())
_generate_simple_pkey(entity_type, label) ==
    entity_type \o Sep \o SelectSeq(Lower(label), IsWordOrDot)

\* the node is a procedure (line 217)
IsProcedure(node_key) == Lower(node_key.entity_type) \in {TypeProcedures, TypeProcedure}

\* query_text of _enhance_procedure_entity (lines 252-255)
QueryText(node_info) ==
    LET proc_name == node_info.label
        proc_desc == IF "description" \in DOMAIN node_info /\ node_info.description # EmptyStr
                     THEN node_info.description
                     ELSE proc_name
    IN  IF Len(proc_desc) > 10 THEN proc_desc ELSE proc_name

\* the query text is long enough to be sent (lines 257-258)
Queryable(node_info) == Len(Strip(QueryText(node_info))) >= 5

\* _query_similar_ttps (lines 522-537): the hits at or above the threshold,
\* cut to max_enhance_per_procedure
_query_similar_ttps(hits) ==
    LET similar_ttps == SelectSeq(hits, LAMBDA hit : hit.score >= es_similarity_threshold)
    IN  SubSeq(similar_ttps, 1,
               IF Len(similar_ttps) < max_enhance_per_procedure
               THEN Len(similar_ttps) ELSE max_enhance_per_procedure)

\* as QuerySimilarTtps, but the hits below the threshold are kept
QuerySimilarTtpsNoThreshold(raised, hits) ==
    IF raised THEN << >>
    ELSE SubSeq(hits, 1, IF Len(hits) < max_enhance_per_procedure
                         THEN Len(hits) ELSE max_enhance_per_procedure)

\* _query_similar_ttps with its except branch: a search that raises gives
\* no match (lines 539-541)
QuerySimilarTtps(raised, hits) == IF raised THEN << >> ELSE _query_similar_ttps(hits)

\* the key of a node made from a match (lines 323-330, 345-352)
EsNodeKey(entity_type, label, score, original_node_key) ==
    [entity_type |-> entity_type, label |-> label,
     pkey |-> _generate_simple_pkey(entity_type, label), source |-> SourceEs,
     similarity_score |-> score, enhanced_from |-> original_node_key]

\* the key of an edge made from a match (lines 455-461, 470-476)
EsEdgeKey(label, pkey, skey, score) ==
    [label |-> label, pkey |-> pkey, skey |-> skey, confidence |-> score, source |-> SourceEs]

\* as _is_duplicate_node_key, but only a node with the same key is a duplicate
_is_duplicate_node_key_same_key(nodes, new_node_key, dedup) ==
    dedup /\ new_node_key \in DOMAIN nodes

\* _is_duplicate_node_key: a node of the same type and label, both compared
\* in lower case, the label stripped
_is_duplicate_node_key(nodes, new_node_key, dedup) ==
    /\ dedup
    /\ \E existing \in DOMAIN nodes :
          /\ Lower(existing.entity_type) = Lower(new_node_key.entity_type)
          /\ Strip(Lower(existing.label)) = Strip(Lower(new_node_key.label))

\* the pkey of the last node of a type in new_node_keys, or the empty string
\* (lines 437-447)
RECURSIVE LastPkeyOfType(_, _)
LastPkeyOfType(new_node_keys, entity_type) ==
    IF new_node_keys = << >> THEN EmptyStr
    ELSE LET last == new_node_keys[Len(new_node_keys)]
         IN  IF last.entity_type = entity_type THEN last.pkey
             ELSE LastPkeyOfType(SubSeq(new_node_keys, 1, Len(new_node_keys) - 1), entity_type)

\* _create_ttp_relationships: tactics HAS techniques and techniques LAUNCH
\* procedure, each added when its key is new (lines 453-482)
_create_ttp_relationships(new_node_keys, original_node_key, edges, score) ==
    LET original_pkey == original_node_key.pkey
        tactics_pkey == LastPkeyOfType(new_node_keys, TypeTactics)
        techniques_pkey == LastPkeyOfType(new_node_keys, TypeTechniques)
        has_key == EsEdgeKey(LabelHas, tactics_pkey, techniques_pkey, score)
        add_has == tactics_pkey # EmptyStr /\ techniques_pkey # EmptyStr
                   /\ has_key \notin DOMAIN edges
        edges1 == IF add_has THEN Put(edges, has_key, 1) ELSE edges
        launch_key == EsEdgeKey(LabelLaunch, techniques_pkey, original_pkey, score)
        add_launch == techniques_pkey # EmptyStr /\ launch_key \notin DOMAIN edges1
        edges2 == IF add_launch THEN Put(edges1, launch_key, 1) ELSE edges1
    IN  [edges |-> edges2,
         relationships_added |-> (IF add_has THEN 1 ELSE 0) + (IF add_launch THEN 1 ELSE 0)]

\* the entry of similar_procedures made from a match (lines 301-306)
SimilarProcedureInfo(ttp) ==
    [text |-> IF Len(ttp.procedure) > 100
              THEN SubSeq(ttp.procedure, 1, 100) \o <<46, 46, 46>>
              ELSE ttp.procedure,
     similarity_score |-> ttp.score, source |-> SourceEs]

\* one pass of the loop of _add_similar_ttps_to_graph over the matches
\* (lines 294-370); acc holds the graph, the counters and the flags.  For a
\* match with a procedure text nodes[original_node_key] += 1 (line 313)
\* raises KeyError when the key is not in nodes: the loop is left with what
\* the earlier passes wrote to the graph and the counters and with the entry
\* of similar_procedures_info made for this match (lines 301-306), and no
\* later match is handled (acc.raised).
AddTtp(acc, original_node_key, ttp, dedup) ==
    LET has_procedure == ~IsBlank(ttp.procedure)
        has_tactics == ~IsBlank(ttp.tactics)
        has_techniques == ~IsBlank(ttp.techniques)
        nodes1 == IF has_procedure
                  THEN [acc.nodes EXCEPT ![original_node_key] = @ + 1]
                  ELSE acc.nodes
        tactic_key == EsNodeKey(TypeTactics, ttp.tactics, ttp.score, original_node_key)
        add_tactic == has_tactics /\ ~_is_duplicate_node_key(nodes1, tactic_key, dedup)
        nodes2 == IF add_tactic THEN Put(nodes1, tactic_key, 1) ELSE nodes1
        technique_key == EsNodeKey(TypeTechniques, ttp.techniques, ttp.score, original_node_key)
        add_technique == has_techniques /\ ~_is_duplicate_node_key(nodes2, technique_key, dedup)
        nodes3 == IF add_technique THEN Put(nodes2, technique_key, 1) ELSE nodes2
        new_node_keys == (IF has_procedure THEN <<original_node_key>> ELSE << >>)
                         \o (IF has_tactics THEN <<tactic_key>> ELSE << >>)
                         \o (IF has_techniques THEN <<technique_key>> ELSE << >>)
        rels == _create_ttp_relationships(new_node_keys, original_node_key, acc.edges,
                                          ttp.score)
    IN  IF acc.raised THEN acc
        ELSE IF has_procedure /\ original_node_key \notin DOMAIN acc.nodes
        THEN [acc EXCEPT !.raised = TRUE,
                         !.similar_procedures_info =
                             Append(@, SimilarProcedureInfo(ttp))]
        ELSE [nodes |-> nodes3,
                  edges |-> rels.edges,
                  similar_procedures_info |->
                     IF has_procedure
                     THEN Append(acc.similar_procedures_info, SimilarProcedureInfo(ttp))
                     ELSE acc.similar_procedures_info,
                  enhanced |-> IF has_procedure THEN acc.enhanced \cup {original_node_key}
                               ELSE acc.enhanced,
                  new_entities_added |-> acc.new_entities_added
                     + (IF add_tactic THEN 1 ELSE 0) + (IF add_technique THEN 1 ELSE 0),
                  new_relationships_added |-> acc.new_relationships_added + rels.relationships_added,
                  actually_enhanced |-> acc.actually_enhanced \/ add_tactic \/ add_technique
                                        \/ rels.relationships_added > 0,
                  raised |-> FALSE]

RECURSIVE AddTtps(_, _, _, _)
AddTtps(acc, original_node_key, similar_ttps, dedup) ==
    IF similar_ttps = << >> THEN acc
    ELSE AddTtps(AddTtp(acc, original_node_key, Head(similar_ttps), dedup),
                 original_node_key, Tail(similar_ttps), dedup)

\* the key of the original node with similar_procedures added (lines 373-377)
UpdatedNodeKey(original_node_key, similar_procedures_info) ==
    [field \in (DOMAIN original_node_key) \cup {"similar_procedures"} |->
        IF field = "similar_procedures" THEN similar_procedures_info
        ELSE original_node_key[field]]

\* as RenameNode, but the original key is left in the dict
RenameNodeKeepOriginal(nodes, original_node_key, updated_node_key) ==
    [node_key \in (DOMAIN nodes) \cup {updated_node_key} |->
        IF node_key = updated_node_key THEN nodes[original_node_key] ELSE nodes[node_key]]

\* nodes.pop(original_node_key); nodes[updated_node_key] = node_count
RenameNode(nodes, original_node_key, updated_node_key) ==
    [node_key \in ((DOMAIN nodes) \ {original_node_key}) \cup {updated_node_key} |->
        IF node_key = updated_node_key THEN nodes[original_node_key] ELSE nodes[node_key]]

\* _add_similar_ttps_to_graph: the graph after the matches were added, the
\* additions to the counters, the original keys it recorded as enhanced and
\* the flag it returns.  When the loop raised (field raised), the except
\* block returns False (lines 387-389): the node is not renamed, and what
\* was written to the graph, the counters and the set before the exception
\* stays.
_add_similar_ttps_to_graph(original_node_key, similar_ttps, nodes, edges, dedup) ==
    LET acc == AddTtps([nodes |-> nodes, edges |-> edges,
                        similar_procedures_info |-> << >>, enhanced |-> {},
                        new_entities_added |-> 0, new_relationships_added |-> 0,
                        actually_enhanced |-> FALSE, raised |-> FALSE],
                       original_node_key, similar_ttps, dedup)
    IN  IF acc.raised THEN [acc EXCEPT !.actually_enhanced = FALSE]
        ELSE IF acc.similar_procedures_info # << >> /\ original_node_key \in DOMAIN acc.nodes
        THEN [acc EXCEPT !.nodes = RenameNode(@, original_node_key,
                 UpdatedNodeKey(original_node_key, acc.similar_procedures_info))]
        ELSE acc

\* as RecordEnhanced, but only the procedures for which the call returned
\* True are recorded
RecordEnhancedWhenFlagged(enhanced_set, node_key, recorded, was_enhanced) ==
    enhanced_set \cup (IF was_enhanced THEN {node_key} ELSE {})

\* global_enhanced_procedures after a procedure was handled: the keys
\* _add_similar_ttps_to_graph recorded (line 314), and the key of the
\* procedure when _enhance_procedure_entity returned True (lines 238-239)
RecordEnhanced(enhanced_set, node_key, recorded, was_enhanced) ==
    enhanced_set \cup recorded \cup (IF was_enhanced THEN {node_key} ELSE {})

\* the procedures of a graph, in the order of its nodes (lines 209-225)
ProcedureEntities(graph) == SelectSeq(graph.order, IsProcedure)

\* a hit of the index after _query_similar_ttps read its fields
Hit(procedure, tactics, techniques, score) ==
    [procedure |-> procedure, tactics |-> tactics, techniques |-> techniques, score |-> score]

\* the hits the index answers with: a tactic "Initial Access" with the
\* technique "Phishing"; the procedure "Send mail" alone; the tactic
\* "initial access " alone, with a blank procedure; a hit below the
\* threshold; and the first tactic and technique again, with another score
HitPool ==
    {Hit(EmptyStr, <<73, 110, 105, 116, 105, 97, 108, 32, 65, 99, 99, 101, 115, 115>>,
         <<80, 104, 105, 115, 104, 105, 110, 103>>, 90),
     Hit(<<83, 101, 110, 100, 32, 109, 97, 105, 108>>, EmptyStr, EmptyStr, 90),
     Hit(<<32>>, <<105, 110, 105, 116, 105, 97, 108, 32, 97, 99, 99, 101, 115, 115, 32>>,
         EmptyStr, 80),
     Hit(<<83, 101, 110, 100, 32, 109, 97, 105, 108>>,
         <<73, 110, 105, 116, 105, 97, 108, 32, 65, 99, 99, 101, 115, 115>>,
         <<80, 104, 105, 115, 104, 105, 110, 103>>, 60),
     Hit(EmptyStr, <<73, 110, 105, 116, 105, 97, 108, 32, 65, 99, 99, 101, 115, 115>>,
         <<80, 104, 105, 115, 104, 105, 110, 103>>, 80)}

\* {"status": "failed", "reason": "ES客户端未初始化"} (line 151)
FailedStats ==
    [status |-> "failed",
     reason |-> <<69, 83, 23458, 25143, 31471, 26410, 21021, 22987, 21270>>]

\* enhance_knowledge_graph without an ES client returns kg_data as it is,
\* with statistics that hold a status and a reason and no counter
\* (lines 149-151)
EnhanceNoClient ==
    /\ pc = "enhance"
    /\ ~es_available
    /\ enhanced_kg_data' = [k \in 1..Len(kg_data) |->
                               [nodes |-> kg_data[k].nodes, edges |-> kg_data[k].edges]]
    /\ enhancement_stats' = FailedStats
    /\ pc' = "enhance_failed"
    /\ UNCHANGED <<serviceVars, pipelineVars, mergeVars, subgraphVars, enhanceInput, graph_idx, enhanceChunk,
                   global_enhanced_procedures, touched_procedures>>

\* enhance_knowledge_graph starts its loop over the graphs
EnhanceStart ==
    /\ pc = "enhance"
    /\ es_available
    /\ pc' = "graph"
    /\ UNCHANGED <<serviceVars, pipelineVars, mergeVars, subgraphVars, enhanceVars>>

\* _enhance_single_knowledge copies a graph and collects its procedures; a
\* graph without procedures is returned at once (lines 202-228)
EnhanceSingleStart ==
    /\ pc = "graph"
    /\ graph_idx <= Len(kg_data)
    /\ LET graph == kg_data[graph_idx]
           found == ProcedureEntities(graph)
       IN  /\ enhancement_stats' = [enhancement_stats EXCEPT
                                       !.procedures_found = @ + Len(found)]
           /\ IF found = << >>
              THEN /\ enhanced_kg_data' = Append(enhanced_kg_data,
                                             [nodes |-> graph.nodes, edges |-> graph.edges])
                   /\ graph_idx' = graph_idx + 1
                   /\ pc' = "graph"
                   /\ UNCHANGED enhanceChunk
              ELSE /\ chunk_nodes' = graph.nodes
                   /\ chunk_edges' = graph.edges
                   /\ procedure_entities' = found
                   /\ proc_pos' = 1
                   /\ chunk_nodes_before' = graph.nodes
                   /\ chunk_edges_before' = graph.edges
                   /\ pc' = "procedures"
                   /\ UNCHANGED <<enhanced_kg_data, graph_idx, es_response, es_raised>>
    /\ UNCHANGED <<serviceVars, pipelineVars, mergeVars, subgraphVars, enhanceInput,
                   global_enhanced_procedures, touched_procedures>>

\* _enhance_procedure_entity for a procedure whose query text is too short:
\* no query is made (lines 257-258)
EnhanceProcedureSkipped ==
    /\ pc = "procedures"
    /\ proc_pos <= Len(procedure_entities)
    /\ ~Queryable(procedure_entities[proc_pos])
    /\ proc_pos' = proc_pos + 1
    /\ chunk_nodes_before' = chunk_nodes
    /\ chunk_edges_before' = chunk_edges
    /\ UNCHANGED <<serviceVars, pipelineVars, pc, mergeVars, subgraphVars, enhanceInput, graph_idx,
                   enhanced_kg_data, chunk_nodes, chunk_edges, procedure_entities,
                   es_response, es_raised,
                   global_enhanced_procedures, enhancement_stats, touched_procedures>>

\* _enhance_procedure_entity for a procedure that is queried: the index
\* answers with some hits, the matches are added to the graph and the
\* procedure is recorded when it was enhanced (lines 230-239, 260-273)
EnhanceProcedureEntity ==
    /\ pc = "procedures"
    /\ proc_pos <= Len(procedure_entities)
    /\ Queryable(procedure_entities[proc_pos])
    /\ \E raised \in BOOLEAN :
       \E hits \in IF raised THEN {<< >>} ELSE UNION {[1..len -> HitPool] : len \in 0..top_k} :
          LET node_key == procedure_entities[proc_pos]
              similar_ttps == QuerySimilarTtps(raised, hits)
              added == _add_similar_ttps_to_graph(node_key, similar_ttps, chunk_nodes,
                                                  chunk_edges, enable_deduplication)
          IN  /\ es_response' = hits
              /\ es_raised' = raised
              /\ chunk_nodes_before' = chunk_nodes
              /\ chunk_edges_before' = chunk_edges
              /\ IF similar_ttps = << >>
                 THEN /\ enhancement_stats' = [enhancement_stats EXCEPT !.es_queries = @ + 1]
                      /\ UNCHANGED <<chunk_nodes, chunk_edges, global_enhanced_procedures,
                                     touched_procedures>>
                 ELSE /\ enhancement_stats' = [enhancement_stats EXCEPT
                             !.es_queries = @ + 1,
                             !.matched_results = @ + Len(similar_ttps),
                             !.new_entities_added = @ + added.new_entities_added,
                             !.new_relationships_added = @ + added.new_relationships_added]
                      /\ chunk_nodes' = added.nodes
                      /\ chunk_edges' = added.edges
                      /\ global_enhanced_procedures' =
                            RecordEnhanced(global_enhanced_procedures, node_key,
                                           added.enhanced, added.actually_enhanced)
                      /\ touched_procedures' = touched_procedures \cup
                            (IF added.nodes # chunk_nodes \/ added.edges # chunk_edges
                             THEN {node_key} ELSE {})
    /\ proc_pos' = proc_pos + 1
    /\ UNCHANGED <<serviceVars, pipelineVars, pc, mergeVars, subgraphVars, enhanceInput, graph_idx,
                   enhanced_kg_data, procedure_entities>>

\* _enhance_single_knowledge returns the enhanced graph (line 241)
EnhanceSingleReturn ==
    /\ pc = "procedures"
    /\ proc_pos > Len(procedure_entities)
    /\ enhanced_kg_data' = Append(enhanced_kg_data,
                                  [nodes |-> chunk_nodes, edges |-> chunk_edges])
    /\ graph_idx' = graph_idx + 1
    /\ pc' = "graph"
    /\ UNCHANGED <<serviceVars, pipelineVars, mergeVars, subgraphVars, enhanceInput, enhanceChunk,
                   global_enhanced_procedures, enhancement_stats, touched_procedures>>

\* enhance_knowledge_graph sets procedures_enhanced and returns (lines 179-195)
EnhanceReturn ==
    /\ pc = "graph"
    /\ graph_idx > Len(kg_data)
    /\ enhancement_stats' = [enhancement_stats EXCEPT
                                !.procedures_enhanced = Cardinality(global_enhanced_procedures)]
    /\ pc' = "enhanced"
    /\ UNCHANGED <<serviceVars, pipelineVars, mergeVars, subgraphVars, enhanceInput, graph_idx,
                   enhanced_kg_data, enhanceChunk, global_enhanced_procedures,
                   touched_procedures>>

\* the graphs to enhance, built as _build_simple_nodes and
\* _build_simple_edges build them; order is the order of the nodes dict
InputGraph(node_keys, edge_keys) ==
    [order |-> node_keys,
     nodes |-> [node_key \in {node_keys[k] : k \in 1..Len(node_keys)} |-> 1],
     edges |-> [edge_key \in edge_keys |-> 1]]

\* a node key as _build_simple_nodes writes it
StoredNode(pkey, label, entity_type) ==
    [pkey |-> pkey, label |-> label, entity_type |-> entity_type]

\* the procedure "Spearphishing mail"
NodeSpearphishing ==
    StoredNode(<<112, 114, 111, 99, 101, 100, 117, 114, 101, 115, 45, 45, 115, 112, 101, 97,
                 114, 112, 104, 105, 115, 104, 105, 110, 103>>,
               <<83, 112, 101, 97, 114, 112, 104, 105, 115, 104, 105, 110, 103, 32, 109, 97,
                 105, 108>>, TypeProcedures)

\* the procedure "Port scanning"
NodePortScanning ==
    StoredNode(<<112, 114, 111, 99, 101, 100, 117, 114, 101, 115, 45, 45, 112, 111, 114, 116,
                 115, 99, 97, 110>>,
               <<80, 111, 114, 116, 32, 115, 99, 97, 110, 110, 105, 110, 103>>, TypeProcedures)

\* the procedure "Scan", whose label is too short to be queried
NodeScan ==
    StoredNode(<<112, 114, 111, 99, 101, 100, 117, 114, 101, 115, 45, 45, 115, 99, 97, 110>>,
               <<83, 99, 97, 110>>, TypeProcedures)

\* the tactic "Initial Access" with the id "tactics--initial-access"
NodeInitialAccess ==
    StoredNode(<<116, 97, 99, 116, 105, 99, 115, 45, 45, 105, 110, 105, 116, 105, 97, 108, 45,
                 97, 99, 99, 101, 115, 115>>,
               <<73, 110, 105, 116, 105, 97, 108, 32, 65, 99, 99, 101, 115, 115>>, TypeTactics)

\* the tool "nmap"
NodeNmap ==
    StoredNode(<<116, 111, 111, 108, 45, 45, 110, 109, 97, 112>>, <<110, 109, 97, 112>>,
               TypeToolLower)

\* the lists of graphs handed to enhance_knowledge_graph; every graph is
\* well formed
KgInputs ==
    LET with_tactic == InputGraph(<<NodeSpearphishing, NodeInitialAccess>>,
                          {GraphEdge(NodeInitialAccess.pkey, NodeSpearphishing.pkey)})
        two_procedures == InputGraph(<<NodeSpearphishing, NodePortScanning>>, {})
        short_label == InputGraph(<<NodeScan, NodeNmap>>,
                          {GraphEdge(NodeNmap.pkey, NodeScan.pkey)})
        no_procedure == InputGraph(<<NodeNmap>>, {})
    IN  {<< >>, <<with_tactic>>, <<with_tactic, with_tactic>>, <<two_procedures>>,
         <<short_label, with_tactic>>, <<no_procedure, with_tactic>>}

InitEnhance ==
    /\ PipelineInit(<< >>, "disabled", "enhance", EmptyStr, EmptyStr)
    /\ MergeIdle
    /\ SubgraphIdle
    /\ CallIdle
    /\ ExtractIdle
    /\ \E graphs \in KgInputs, client \in BOOLEAN, dedup \in BOOLEAN :
          EnhanceInit(graphs, client, dedup)

NextEnhance ==
    \/ EnhanceNoClient
    \/ EnhanceStart
    \/ EnhanceSingleStart
    \/ EnhanceProcedureSkipped
    \/ EnhanceProcedureEntity
    \/ EnhanceSingleReturn
    \/ EnhanceReturn

SpecEnhance == InitEnhance /\ [][NextEnhance]_vars

(***************************************************************************)
(* OpenAIAPIManager.call_api (src/utils.py) under its timeout wrapper, and *)
(* the continuation of align_entities after it.                            *)
(***************************************************************************)
\* the largest max_retries a run is configured with
MaxRetries == 3

\* kinds of exception an attempt can end with.  "BadRequestInspection" is a
\* BadRequestError whose text holds data_inspection_failed, "TimeoutText" is
\* another exception whose text holds "timeout", "Exception" is any other.
ErrorKinds ==
    {"RateLimitError", "APITimeoutError", "InternalServerError", "APIConnectionError",
     "BadRequestInspection", "BadRequestError", "RequestException", "TimeoutText", "Exception"}

\* _should_retry (lines 120-166)
_should_retry(exception, count) ==
    IF count >= max_retries THEN FALSE
    ELSE IF exception \in {"RateLimitError", "APITimeoutError", "InternalServerError",
                           "APIConnectionError"} THEN TRUE
    ELSE IF exception = "BadRequestInspection" THEN FALSE
    ELSE IF exception = "BadRequestError" THEN count < 2
    ELSE IF exception = "RequestException" THEN TRUE
    ELSE exception = "TimeoutText"

\* _get_retry_delay (lines 168-172): it reads self.retry_delays, which
\* __init__ (lines 56-72) never sets, so the read raises AttributeError
_get_retry_delay(count) == "AttributeError"

\* while retry_count <= self.max_retries: ... create(**api_params) (lines 195-219)
\* and, were the loop to end by its test, the final raise (lines 274-287)
CallApiAttempt ==
    /\ pc = "api_loop"
    /\ IF retry_count <= max_retries
       THEN /\ attempts' = attempts + 1
            /\ pc' = "api_inflight"
            /\ UNCHANGED thread_result
       ELSE /\ thread_result' = "APICallError"
            /\ pc' = "api_end"
            /\ UNCHANGED attempts
    /\ UNCHANGED <<max_retries, retry_count, last_exception, sleeps, caller_result, align_path>>
    /\ UNCHANGED <<pipelineVars, otherVars, extractVars>>

\* the client answers (lines 219-248): content is returned, an empty
\* response or a missing content raises APICallError inside the try
CallApiReplies ==
    /\ pc = "api_inflight"
    /\ \E reply \in {"content", "no_choices", "no_content"} :
          IF reply = "content"
          THEN /\ thread_result' = "content"
               /\ pc' = "api_end"
               /\ UNCHANGED last_exception
          ELSE /\ last_exception' = "APICallError"
               /\ pc' = "api_except"
               /\ UNCHANGED thread_result
    /\ UNCHANGED <<max_retries, retry_count, attempts, sleeps, caller_result, align_path>>
    /\ UNCHANGED <<pipelineVars, otherVars, extractVars>>

\* the client raises (lines 250-251)
CallApiAttemptRaises ==
    /\ pc = "api_inflight"
    /\ \E e \in ErrorKinds : last_exception' = e
    /\ pc' = "api_except"
    /\ UNCHANGED <<max_retries, retry_count, attempts, sleeps, thread_result, caller_result,
                   align_path>>
    /\ UNCHANGED <<pipelineVars, otherVars, extractVars>>

\* the except block (lines 250-272) and, after a break, the final raise
\* (lines 274-287)
CallApiHandleFailure ==
    /\ pc = "api_except"
    /\ IF ~_should_retry(last_exception, retry_count)
       THEN /\ thread_result' = "APICallError"
            /\ pc' = "api_end"
            /\ UNCHANGED <<retry_count, sleeps>>
       ELSE IF retry_count < max_retries /\ _get_retry_delay(retry_count) = "AttributeError"
       THEN /\ thread_result' = "AttributeError"
            /\ pc' = "api_end"
            /\ UNCHANGED <<retry_count, sleeps>>
       ELSE /\ sleeps' = IF retry_count < max_retries THEN sleeps + 1 ELSE sleeps
            /\ retry_count' = retry_count + 1
            /\ pc' = "api_loop"
            /\ UNCHANGED thread_result
    /\ UNCHANGED <<max_retries, last_exception, attempts, caller_result, align_path>>
    /\ UNCHANGED <<pipelineVars, otherVars, extractVars>>

\* timeout_handler: thread.join(timeout) ends with the body still running
\* (lines 36-41); the body runs on in its daemon thread
WrapperTimeout ==
    /\ pc \in {"api_loop", "api_inflight", "api_except"}
    /\ caller_result = "pending"
    /\ caller_result' = "TimeoutError"
    /\ UNCHANGED <<max_retries, retryVars, thread_result, align_path>>
    /\ UNCHANGED <<pipelineVars, pc, otherVars, extractVars>>

\* timeout_handler: the body ended in time (lines 43-46)
WrapperReturns ==
    /\ pc = "api_end"
    /\ caller_result = "pending"
    /\ caller_result' = thread_result
    /\ UNCHANGED <<max_retries, retryVars, thread_result, align_path>>
    /\ UNCHANGED <<pipelineVars, pc, otherVars, extractVars>>

\* align_entities after the call (src/graph_data_processor.py lines 70-77):
\* a reply is parsed, any exception degrades to _rule_align
AlignEntitiesContinues ==
    /\ caller_result # "pending"
    /\ align_path = "none"
    /\ align_path' = IF caller_result = "content" THEN "gpt" ELSE "rule"
    /\ UNCHANGED <<max_retries, retryVars, thread_result, caller_result>>
    /\ UNCHANGED <<pipelineVars, pc, otherVars, extractVars>>

InitCallApi ==
    /\ PipelineInit(<< >>, "llm", "api_loop", EmptyStr, EmptyStr)
    /\ MergeIdle
    /\ SubgraphIdle
    /\ EnhanceIdle
    /\ ExtractIdle
    /\ \E retries \in 0..MaxRetries : CallInit(retries)

NextCallApi ==
    \/ CallApiAttempt
    \/ CallApiReplies
    \/ CallApiAttemptRaises
    \/ CallApiHandleFailure
    \/ WrapperTimeout
    \/ WrapperReturns
    \/ AlignEntitiesContinues

SpecCallApi == InitCallApi /\ [][NextCallApi]_vars

(***************************************************************************)
(* KnowledgeGraphExtractor._extract_with_threading                         *)
(* (src/knowledge_graph_extractor.py): a pool of max_workers threads runs  *)
(* _thread_safe_extract_single_chunk on the chunks, the calling thread     *)
(* collects the futures as they complete.                                  *)
(***************************************************************************)
\* the largest number of chunks of a run
MaxDocs == 3
\* the largest pool of a run
MaxWorkers == 2
\* the chunk ids of the runs
ChunkIds == {1, 2}

\* {"entities": [], "relationships": []}
EmptyResult == [entities |-> << >>, relationships |-> << >>]

\* what _extract_from_single_chunk returns for a chunk with data: its
\* entities carry the chunk in chunks_info (lines 598-610), the result has
\* the keys entities and relationships only (_filter_invalid_types, lines 309-312)
DataResult(chunk) == [entities |-> <<[chunks_info |-> <<chunk>>]>>, relationships |-> << >>]

\* what a future holds: the value the worker returned, or the Exception it
\* raised
FutureResult(value) == [raised |-> FALSE, value |-> value]
FutureException == [raised |-> TRUE, value |-> None]

\* the ways a worker can end on a chunk.  An exception that is not an
\* Exception (SystemExit, KeyboardInterrupt) is not among them: nothing
\* under _thread_safe_extract_single_chunk raises one, call_api runs in the
\* thread of timeout_handler (src/utils.py, lines 30-34), and a
\* KeyboardInterrupt is delivered to the main thread
WorkerEndings == {"data", "empty", "caught", "escaped"}

\* "data" and "empty" are returns of _extract_from_single_chunk, "caught" is
\* an exception that _thread_safe_extract_single_chunk turns into an empty
\* result (lines 489-491), "escaped" is an Exception raised by that handler,
\* which the pool stores in the future
WorkerOutcome(chunk, how) ==
    IF how = "data" THEN FutureResult(DataResult(chunk))
    ELSE IF how = "escaped" THEN FutureException
    ELSE FutureResult(EmptyResult)

\* results[chunk_index] = result (line 433)
StoreResultAppend(list, chunk_index, result) ==
    LET free == {i \in DOMAIN list : list[i] = None}
        first == CHOOSE i \in free : \A j \in free : i <= j
    IN  [list EXCEPT ![first] = result]

StoreResult(list, chunk_index, result) == [list EXCEPT ![chunk_index] = result]

\* key=lambda x: x.get('chunk_index', 0) (line 463)
ChunkIndexKey(x) == IF "chunk_index" \in DOMAIN x THEN x.chunk_index ELSE 0

\* list.sort with that key: stable, ascending
RECURSIVE SortByChunkIndex(_)
SortByChunkIndex(list) ==
    IF list = << >> THEN << >>
    ELSE LET head == SortByChunkIndex(SubSeq(list, 1, Len(list) - 1))
             x == list[Len(list)]
             before == Cardinality({j \in DOMAIN head :
                                       ChunkIndexKey(head[j]) <= ChunkIndexKey(x)})
         IN  SubSeq(head, 1, before) \o <<x>> \o SubSeq(head, before + 1, Len(head))

\* executor.submit(...) for the next chunk (lines 418-421)
SubmitChunk ==
    /\ pc = "submitting"
    /\ submitted < Len(docs)
    /\ submitted' = submitted + 1
    /\ UNCHANGED <<docs, max_workers, worker, future, collectVars, extract_return>>
    /\ UNCHANGED <<pipelineVars, pc, otherVars, callVars>>

\* the comprehension ends, as_completed(future_to_index) is entered (line 425)
SubmitDone ==
    /\ pc = "submitting"
    /\ submitted = Len(docs)
    /\ pc' = "collecting"
    /\ UNCHANGED <<pipelineVars, otherVars, callVars, extractVars>>

\* a free thread of the pool takes the oldest submitted chunk
WorkerStart ==
    /\ pc \in {"submitting", "collecting"}
    /\ Cardinality({i \in DOMAIN worker : worker[i] = "running"}) < max_workers
    /\ \E i \in 1..submitted :
          /\ worker[i] = "queued"
          /\ \A j \in 1..(i - 1) : worker[j] # "queued"
          /\ worker' = [worker EXCEPT ![i] = "running"]
    /\ UNCHANGED <<docs, max_workers, submitted, future, collectVars, extract_return>>
    /\ UNCHANGED <<pipelineVars, pc, otherVars, callVars>>

\* _thread_safe_extract_single_chunk ends on a chunk (lines 477-491)
WorkerFinish ==
    /\ pc \in {"submitting", "collecting"}
    /\ \E i \in DOMAIN worker, how \in WorkerEndings :
          /\ worker[i] = "running"
          /\ worker' = [worker EXCEPT ![i] = "done"]
          /\ future' = [future EXCEPT ![i] = WorkerOutcome(docs[i], how)]
    /\ UNCHANGED <<docs, max_workers, submitted, collectVars, extract_return>>
    /\ UNCHANGED <<pipelineVars, pc, otherVars, callVars>>

\* one round of the loop over as_completed (lines 425-455): a future that
\* is done and was not yet handed out.  future.result() (line 430) raises
\* what the worker raised; `except Exception` (line 446) stores the empty
\* result for it
CollectFuture ==
    /\ pc = "collecting"
    /\ \E chunk_index \in DOMAIN worker :
          /\ worker[chunk_index] = "done"
          /\ \A k \in DOMAIN collected : collected[k] # chunk_index
          /\ collected' = Append(collected, chunk_index)
          /\ completed_count' = completed_count + 1
          /\ IF future[chunk_index].raised
             THEN /\ results' = StoreResult(results, chunk_index, EmptyResult)
                  /\ failed_extractions' = failed_extractions + 1
                  /\ UNCHANGED successful_extractions
             ELSE LET result == future[chunk_index].value
                  IN  /\ results' = StoreResult(results, chunk_index, result)
                      /\ IF Len(result.entities) > 0 \/ Len(result.relationships) > 0
                         THEN /\ successful_extractions' = successful_extractions + 1
                              /\ UNCHANGED failed_extractions
                         ELSE /\ failed_extractions' = failed_extractions + 1
                              /\ UNCHANGED successful_extractions
    /\ UNCHANGED <<docs, max_workers, poolVars, extract_return>>
    /\ UNCHANGED <<pipelineVars, pc, otherVars, callVars>>

\* every future was handed out: the pool is left, the None slots are
\* filled, the list is sorted and returned (lines 457-475)
ExtractReturn ==
    /\ pc = "collecting"
    /\ Len(collected) = Len(docs)
    /\ extract_return' =
          SortByChunkIndex([i \in DOMAIN results |->
                              IF results[i] # None THEN results[i] ELSE EmptyResult])
    /\ pc' = "extracted"
    /\ UNCHANGED <<docs, max_workers, poolVars, collectVars>>
    /\ UNCHANGED <<pipelineVars, otherVars, callVars>>

InitExtract ==
    /\ PipelineInit(<< >>, "disabled", "submitting", EmptyStr, EmptyStr)
    /\ MergeIdle
    /\ SubgraphIdle
    /\ EnhanceIdle
    /\ CallIdle
    /\ \E n \in 0..MaxDocs, workers \in 1..MaxWorkers :
          \E chunks \in [1..n -> ChunkIds] : ExtractInit(chunks, workers)

NextExtract ==
    \/ SubmitChunk
    \/ SubmitDone
    \/ WorkerStart
    \/ WorkerFinish
    \/ CollectFuture
    \/ ExtractReturn

SpecExtract == InitExtract /\ [][NextExtract]_vars

(***************************************************************************)
(* Properties.                                                             *)
(***************************************************************************)
\* the ids of the aligned entities
AlignedIds == {aligned_entities[k].id : k \in 1..Len(aligned_entities)}

\* align_entities has returned
Aligned == pc = "aligned" /\ mode \in {"llm", "rule"}

\* the run went down the rule-based path: no api_manager, or the fallback
RulePath == mode = "rule" \/ api_failed

\* what extract_pure_graph_data hands back: the entities and relationships of
\* full_result[0] and the nodes and edges of simple_result[0]
Returned ==
    [entities |-> aligned_entities, relationships |-> processed_relationships,
     nodes |-> simple_nodes, edges |-> simple_edges]

\* C1: referential integrity.  After extract_pure_graph_data every resolved
\* relationship has a source and a target that are ids of entities of the
\* final aligned list, and pkeys of nodes of the simple graph once it is built.
C1_ReferentialIntegrity ==
    /\ pc \in {"resolved", "done"} =>
          \A k \in 1..Len(processed_relationships) :
              /\ processed_relationships[k].source \in AlignedIds
              /\ processed_relationships[k].target \in AlignedIds
    /\ pc = "done" =>
          \A e \in DOMAIN simple_edges :
              /\ \E n \in DOMAIN simple_nodes : n.pkey = e.pkey
              /\ \E n \in DOMAIN simple_nodes : n.pkey = e.skey

\* C1 witness: after the rule-based fallback a relationship was resolved to a
\* canonical id that no raw relationship names, next to a dropped one
C1_Witness ==
    /\ pc = "done"
    /\ api_failed
    /\ skipped_count > 0
    /\ \E k \in 1..Len(processed_relationships) : processed_relationships[k].source \notin RelIdPool

\* C2: partition property.  After align_entities every input position is a
\* member of exactly one output entity.
C2_Partition ==
    Aligned =>
        \A p \in 1..Len(entities) :
            Cardinality({k \in 1..Len(members) : p \in members[k]}) = 1

\* C3: fallback guarantee.  When a clustering call was made and raised,
\* align_entities returns the triple _rule_align returns for the same input.
C3_FallbackGuarantee ==
    (Aligned /\ api_calls > 0 /\ api_failed) =>
        <<aligned_entities, name_mapping, id_mapping>> = _rule_align(entities)

\* C3 witness: the call raised after an earlier type had already passed
\* through _gpt_align, and the rule-based result merges entities
C3_Witness ==
    /\ Aligned
    /\ api_failed
    /\ t > 1
    /\ \E k \in 1..Len(aligned_entities) : aligned_entities[k].merge_count >= 2

\* C4: idempotent canonicalization.  The id of every output entity is a key
\* of the id map and is mapped to itself.
C4_IdempotentCanonicalization ==
    Aligned =>
        \A c \in AlignedIds : c \in DOMAIN id_mapping /\ id_mapping[c] = c

\* C5: raw-id coverage.  Every non-empty raw id of an input entity is a key
\* of the returned id map.
C5_RawIdCoverage ==
    Aligned =>
        \A p \in 1..Len(entities) :
            entities[p].id # EmptyStr => entities[p].id \in DOMAIN id_mapping

\* a dict keeps every entry it has
KeepsEntries(before, after) ==
    \A k \in DOMAIN before : k \in DOMAIN after /\ after[k] = before[k]

\* C6: first registration wins.  While align_entities works on one dict, a key
\* that is present never changes its value: in id_mapping (a new dict only
\* when _rule_align starts after a failed call) and in the id map of
\* _parse_align_response (a new dict for every reply).
C6_FirstRegistrationWins ==
    [][/\ ~(pc = "gpt" /\ pc' = "rule") => KeepsEntries(id_mapping, id_mapping')
       /\ ~(pc = "gpt" /\ pc' = "parse") => KeepsEntries(type_id_mapping, type_id_mapping')]_vars

\* the four case forms of a string
CaseForms(str) == {str, Lower(str), Upper(str), Capitalize(str)}

\* C7 as stated: after registering raw_id with canonical_id in an empty map,
\* the four case forms of raw_id resolve to canonical_id, and for
\* raw_id = prefix--suffix all 16 combinations of case forms do.
C7_AllSixteenCombinations ==
    (pc = "registered" /\ raw_id # EmptyStr) =>
        /\ \A v \in CaseForms(raw_id) : v \in DOMAIN id_mapping /\ id_mapping[v] = canonical_id
        /\ Contains(Sep, raw_id) =>
              \A f \in CaseForms(SplitPrefix(raw_id)), h \in CaseForms(SplitSuffix(raw_id)) :
                  /\ (f \o Sep \o h) \in DOMAIN id_mapping
                  /\ id_mapping[f \o Sep \o h] = canonical_id

\* the keys one registration of str creates, the capitalized prefix being
\* combined with the suffixes of suffix_forms
RegisteredForms(str, suffix_forms) ==
    CaseForms(str)
    \cup (IF Contains(Sep, str)
          THEN {Lower(SplitPrefix(str)) \o Sep \o Lower(SplitSuffix(str)),
                Upper(SplitPrefix(str)) \o Sep \o Upper(SplitSuffix(str))}
               \cup {Capitalize(SplitPrefix(str)) \o Sep \o h : h \in suffix_forms}
          ELSE {})

\* C7 as amended: the keys of the map are exactly raw_id, its lower, upper and
\* capitalized forms and, for raw_id = prefix--suffix, lower--lower,
\* upper--upper, Capitalized--suffix, Capitalized--lower and
\* Capitalized--upper, all mapped to canonical_id; the fallback registration
\* maps the same keys except Capitalized--suffix to raw_id itself.
C7_VariantRegistration ==
    /\ (pc = "registered" /\ raw_id # EmptyStr) =>
          /\ DOMAIN id_mapping =
                RegisteredForms(raw_id, {SplitSuffix(raw_id), Lower(SplitSuffix(raw_id)),
                                         Upper(SplitSuffix(raw_id))})
          /\ \A v \in DOMAIN id_mapping : id_mapping[v] = canonical_id
    /\ pc = "registered_fallback" =>
          /\ DOMAIN id_mapping =
                RegisteredForms(raw_id, {Lower(SplitSuffix(raw_id)), Upper(SplitSuffix(raw_id))})
          /\ \A v \in DOMAIN id_mapping : id_mapping[v] = raw_id

\* C7 witness: an id with a mixed-case prefix and suffix was registered, and a
\* combination outside the registered forms does not resolve
C7_Witness ==
    /\ pc = "registered"
    /\ Contains(Sep, raw_id)
    /\ Cardinality(CaseForms(SplitPrefix(raw_id))) >= 3
    /\ (Lower(SplitPrefix(raw_id)) \o Sep \o Upper(SplitSuffix(raw_id))) \notin DOMAIN id_mapping

\* the input of the merge example: Tool entities named "SSH", "Secure Shell", "ssh"
MergeExampleInput ==
    /\ Len(entities) = 3
    /\ entities[1].name = <<83, 83, 72>>
    /\ entities[2].name = <<83, 101, 99, 117, 114, 101, 32, 83, 104, 101, 108, 108>>
    /\ entities[3].name = <<115, 115, 104>>
    /\ \A p \in 1..3 : entities[p].type = TypeTool

\* C8 as stated: rule-based alignment of the example yields one entity named
\* "Secure Shell" with merge_count 3.
C8_MergeExampleOneEntity ==
    (Aligned /\ RulePath /\ MergeExampleInput) =>
        /\ Len(aligned_entities) = 1
        /\ aligned_entities[1].name = <<83, 101, 99, 117, 114, 101, 32, 83, 104, 101, 108, 108>>
        /\ aligned_entities[1].merge_count = 3

\* C8 as amended: rule-based alignment of the example yields two entities:
\* "SSH" with merge_count 2 (SSH and ssh), then "Secure Shell" as it came in.
C8_MergeExample ==
    (Aligned /\ RulePath /\ MergeExampleInput) =>
        /\ Len(aligned_entities) = 2
        /\ aligned_entities[1].name = <<83, 83, 72>>
        /\ aligned_entities[1].merge_count = 2
        /\ members[1] = {1, 3}
        /\ aligned_entities[2] = entities[2]

\* C8 witness: the example went through rule-based alignment
C8_Witness == Aligned /\ mode = "rule" /\ MergeExampleInput /\ Len(aligned_entities) = 2

\* a relationship both of whose ends are keys of the id map
BothResolve(rel) == rel.source \in DOMAIN id_mapping /\ rel.target \in DOMAIN id_mapping

\* positions of the relationships that resolve
ResolvedPositions == {k \in 1..Len(relationships) : BothResolve(relationships[k])}

\* a relationship is kept if and only if both ends resolve: the output is
\* the resolving relationships, in order, with both ends rewritten
KeptIffResolved ==
    /\ Len(processed_relationships) = Cardinality(ResolvedPositions)
    /\ \A k \in ResolvedPositions :
          LET rank == Cardinality({j \in ResolvedPositions : j <= k})
          IN  /\ processed_relationships[rank].source = id_mapping[relationships[k].source]
              /\ processed_relationships[rank].target = id_mapping[relationships[k].target]
              /\ processed_relationships[rank].type = relationships[k].type

\* C9 as stated: kept if and only if both ends resolve, and the number of
\* omitted relationships is part of what is returned to the caller.
C9_SkippedCountReturned ==
    pc \in {"resolved", "done"} =>
        /\ KeptIffResolved
        /\ "skipped_count" \in DOMAIN Returned
        /\ Returned["skipped_count"] = Len(relationships) - Len(processed_relationships)

\* C9 as amended: kept if and only if both ends resolve; the number of omitted
\* relationships is the local counter skipped_count, and what is returned
\* holds entities, relationships, nodes and edges only.
C9_DanglingDropped ==
    pc \in {"resolved", "done"} =>
        /\ KeptIffResolved
        /\ skipped_count = Len(relationships) - Len(processed_relationships)
        /\ DOMAIN Returned = {"entities", "relationships", "nodes", "edges"}

\* C9 witness: one relationship was kept and one with an unknown target dropped
C9_Witness ==
    /\ pc = "resolved"
    /\ Len(processed_relationships) = 1
    /\ skipped_count = 1
    /\ \E k \in 1..Len(relationships) :
          /\ relationships[k].source \in DOMAIN id_mapping
          /\ relationships[k].target \notin DOMAIN id_mapping

\* lower(type) + "--" + name lowercased with the characters of drop removed
IdOf(entity, drop) ==
    Lower(entity.type) \o Sep \o SelectSeq(Lower(entity.name), LAMBDA ch : ch \notin drop)

\* C10 as stated: every entity align_entities returns has the id
\* lower(type)--normalize(name), spaces and hyphens removed.
C10_EveryIdCanonical ==
    Aligned =>
        \A k \in 1..Len(aligned_entities) :
            aligned_entities[k].id = IdOf(aligned_entities[k], {32, 45})

\* C10 as amended: an entity merged from two or more has the id
\* lower(type)--normalize(name); an entity that passes through alone keeps
\* the raw id of its input entity, or has lower(type)--lower(name) with only
\* the spaces removed when _merge_entities rewrote a raw id that lacks '--'
\* or starts with 'unknown--'.
C10_MergedIdCanonical ==
    Aligned =>
        \A k \in 1..Len(aligned_entities) :
            LET e == aligned_entities[k]
            IN  IF e.merge_count >= 2
                THEN e.id = IdOf(e, {32, 45})
                ELSE \E p \in members[k] :
                        /\ e.name = entities[p].name
                        /\ e.type = entities[p].type
                        /\ \/ e.id = entities[p].id
                           \/ /\ e.id = IdOf(e, {32})
                              /\ \/ ~Contains(Sep, entities[p].id)
                                 \/ StartsWith(entities[p].id, <<117, 110, 107, 110, 111, 119, 110, 45, 45>>)

\* C10 witness: a merged entity whose name holds a hyphen, next to an entity
\* that passed through with a raw id that is not in canonical form
C10_Witness ==
    /\ Aligned
    /\ \E k \in 1..Len(aligned_entities) :
          aligned_entities[k].merge_count >= 2 /\ 45 \in CharSet(aligned_entities[k].name)
    /\ \E k \in 1..Len(aligned_entities) :
          /\ aligned_entities[k].merge_count = 0
          /\ aligned_entities[k].id # IdOf(aligned_entities[k], {32, 45})

\* the names of the entities of a group
GroupNames == {merge_group[k].name : k \in 1..Len(merge_group)}

\* _merge_entities has returned for a group of two or more
MergedGroup == pc = "merged" /\ Len(merge_group) >= 2

\* C11: merged-entity fields.  For a group of two or more entities the
\* result's name is a name of a member and no member's name is longer, its
\* merge_count is the number of members, and original_names is present
\* exactly when the members have more than one distinct non-empty name.
C11_MergedFields ==
    MergedGroup =>
        /\ merge_result.entity.name \in GroupNames
        /\ \A name \in GroupNames : Len(name) <= Len(merge_result.entity.name)
        /\ merge_result.entity.merge_count = Len(merge_group)
        /\ ("original_names" \in DOMAIN merge_result.fields)
              <=> (Cardinality(GroupNames \ {EmptyStr}) > 1)

\* C11 witness: three members, one of them without a name and two with the
\* same name, were merged into an entity without original_names
C11_Witness ==
    /\ MergedGroup
    /\ Len(merge_group) = 3
    /\ EmptyStr \in GroupNames
    /\ Cardinality(GroupNames) = 2
    /\ "original_names" \notin DOMAIN merge_result.fields
    /\ merge_result.entity.merge_count = 3

\* the provenance records of the members of the group
MemberChunks ==
    UNION {{merge_group[k].chunks_info[n] : n \in 1..Len(merge_group[k].chunks_info)} :
              k \in 1..Len(merge_group)}

\* every provenance record of the group is shaped as the extraction step
\* produces it
ExtractionShaped == \A chunk_info \in MemberChunks : "chunk_id" \in DOMAIN chunk_info

\* C17: provenance union.  For a group of two or more whose provenance
\* records are keyed by chunk_id, the chunks_info of the merged entity holds
\* exactly one record for each distinct chunk id of the members.
C17_ProvenanceUnion ==
    (MergedGroup /\ ExtractionShaped) =>
        LET merged == merge_result.fields.chunks_info
        IN  /\ \A chunk_info \in MemberChunks :
                  Cardinality({n \in 1..Len(merged) :
                      "chunk_id" \in DOMAIN merged[n]
                      /\ merged[n].chunk_id = chunk_info.chunk_id}) = 1
            /\ \A n \in 1..Len(merged) : merged[n] \in MemberChunks

\* the sum of the values of a function with a finite domain
RECURSIVE SumOver(_, _)
SumOver(f, keys) ==
    IF keys = {} THEN 0
    ELSE LET key == CHOOSE k \in keys : TRUE
         IN  f[key] + SumOver(f, keys \ {key})

\* positions of the resolved relationships that collapse onto an edge key
Instances(key) ==
    {k \in 1..Len(processed_relationships) : EdgeKey(processed_relationships[k]) = key}

\* C12: simple-graph edge counts.  After _build_simple_edges the edge keys
\* are the keys of the resolved relationships, the count of each key is the
\* number of resolved relationships with that source, target and type, and
\* the counts sum to the number of resolved relationships.
C12_EdgeCounts ==
    pc = "done" =>
        /\ DOMAIN simple_edges =
              {EdgeKey(processed_relationships[k]) : k \in 1..Len(processed_relationships)}
        /\ \A key \in DOMAIN simple_edges : simple_edges[key] = Cardinality(Instances(key))
        /\ SumOver(simple_edges, DOMAIN simple_edges) = Len(processed_relationships)

\* C12 witness: two relationships with different raw source ids were
\* resolved onto the same edge, which has the count 2
C12_Witness ==
    /\ pc = "done"
    /\ Len(relationships) = 2
    /\ relationships[1].source # relationships[2].source
    /\ \E key \in DOMAIN simple_edges : simple_edges[key] = 2

\* every edge endpoint of a graph is the pkey of one of its nodes
WellFormed(nodes, edges) ==
    \A edge_key \in DOMAIN edges :
        edge_key.pkey \in Pkeys(nodes) /\ edge_key.skey \in Pkeys(nodes)

\* C14: BFS closure.  For a well-formed input graph and a hop cap of at
\* least 1, every edge of the returned subgraph has its pkey and its skey
\* among the pkeys of the returned nodes.
C14_BfsClosure ==
    (pc = "extracted" /\ WellFormed(all_nodes, all_edges) /\ hop_limit >= 1) =>
        WellFormed(final_nodes, final_edges)

\* C14 witness: the traversal of a well-formed graph was cut by the cap of
\* the code while nodes were left to visit, and returned edges
C14_Witness ==
    /\ pc = "extracted"
    /\ WellFormed(all_nodes, all_edges)
    /\ hop_count > hop_limit
    /\ to_visit # {}
    /\ DOMAIN final_edges # {}
    /\ DOMAIN final_edges # DOMAIN all_edges

\* C15: BFS monotonicity in the hop cap.  The nodes and edges returned with
\* a hop cap are a superset of those returned, for the same graph, with any
\* smaller hop cap.
C15_BfsMonotone ==
    pc = "extracted" =>
        \A smaller \in 1..(hop_limit - 1) :
            LET sub == extract_apt41_subgraph(all_nodes, all_edges, smaller)
            IN  /\ DOMAIN sub.nodes \subseteq DOMAIN final_nodes
                /\ DOMAIN sub.edges \subseteq DOMAIN final_edges

\* C15 witness: the cap of the code returned more nodes and more edges than
\* the cap 1 returns for the same graph
C15_Witness ==
    /\ pc = "extracted"
    /\ LET sub == extract_apt41_subgraph(all_nodes, all_edges, 1)
       IN  /\ DOMAIN sub.nodes # {}
           /\ DOMAIN sub.nodes # DOMAIN final_nodes
           /\ DOMAIN sub.edges # DOMAIN final_edges

\* C13: the endpoint invariant is preserved by enhancement.  Every graph of
\* the input whose edges all end at pkeys of its nodes is returned by
\* enhance_knowledge_graph as a graph whose edges, the added HAS and LAUNCH
\* edges included, all end at pkeys of its nodes.
C13_EndpointsPreserved ==
    pc = "enhanced" =>
        \A k \in 1..Len(kg_data) :
            WellFormed(kg_data[k].nodes, kg_data[k].edges)
                => WellFormed(enhanced_kg_data[k].nodes, enhanced_kg_data[k].edges)

\* the node keys of the procedures of the input
InputProcedureKeys ==
    UNION {{node_key \in DOMAIN kg_data[k].nodes : IsProcedure(node_key)} : k \in 1..Len(kg_data)}

\* C16: enhancement dedup.  The procedures_enhanced value that
\* enhance_knowledge_graph returns is the number of distinct procedure node
\* keys for which a graph was changed during the run, and is at most the
\* number of distinct procedure node keys of the input.
C16_EnhancementDedup ==
    pc = "enhanced" =>
        /\ enhancement_stats.procedures_enhanced = Cardinality(touched_procedures)
        /\ enhancement_stats.procedures_enhanced <= Cardinality(InputProcedureKeys)

\* C16 witness: the same procedure was enhanced in two graphs, with two
\* matches in a query, and is counted once
C16_Witness ==
    /\ pc = "enhanced"
    /\ Len(kg_data) = 2
    /\ kg_data[1] = kg_data[2]
    /\ enhancement_stats.matched_results = 4
    /\ enhanced_kg_data[1].nodes # kg_data[1].nodes
    /\ enhanced_kg_data[2].nodes # kg_data[2].nodes
    /\ enhancement_stats.procedures_enhanced = 1

(***************************************************************************)
(* The clustering reply: no usable group, indices out of range, an index   *)
(* in two groups.                                                          *)
(***************************************************************************)
\* _parse_align_response has returned the triple of the current type
TypeDone == pc = "type_done"

\* the clustering call returned and its reply holds no usable group
NoUsableGroups == TypeDone /\ parse_merge_groups(api_response) = << >>

\* C18 as stated: when the clustering call succeeds but yields no usable
\* merge group, the result for the type equals the rule-based alignment of
\* the same entities.
C18_RuleBasedFallback ==
    NoUsableGroups =>
        <<type_aligned, type_name_mapping, type_id_mapping>> = _rule_align(CurrentEntities)

\* C18, amended: when the clustering call succeeds but yields no usable
\* merge group, the entities of the type are returned as they came, none
\* merged, every name mapped to itself and every id mapped to itself.
C18_PassThrough ==
    NoUsableGroups =>
        /\ type_aligned = CurrentEntities
        /\ \A k \in 1..Len(type_members) : type_members[k] = {CurrentIndices[k]}
        /\ \A k \in 1..Len(CurrentEntities) :
              LET entity == CurrentEntities[k]
              IN  /\ entity.name # EmptyStr =>
                        /\ entity.name \in DOMAIN type_name_mapping
                        /\ type_name_mapping[entity.name] = entity.name
                  /\ entity.id # EmptyStr =>
                        /\ entity.id \in DOMAIN type_id_mapping
                        /\ type_id_mapping[entity.id] = entity.id

\* a reply without a usable group for a type that rule-based alignment
\* would have merged
C18_Witness ==
    /\ NoUsableGroups
    /\ api_response # << >>
    /\ Len(_rule_align(CurrentEntities)[1]) < Len(CurrentEntities)
    /\ Len(type_aligned) = Len(CurrentEntities)

\* a group parse_merge_groups keeps: at least two indices, none negative
Usable(group) == Len(group) >= 2 /\ \A i \in 1..Len(group) : group[i] >= 0

\* the indices of a group, in range or not
GroupIndices(group) == {group[i] : i \in 1..Len(group)}

\* the positions in the input of the entities a group names, for the n
\* entities of the current type
GroupPositions(group) ==
    {CurrentIndices[idx + 1] : idx \in {i \in GroupIndices(group) : 0 <= i /\ i < Len(CurrentIndices)}}

\* the entities of the current type a group names, in the order of the group
GroupEntities(group) ==
    LET named == SelectSeq(group, LAMBDA idx : idx + 1 \in DOMAIN CurrentEntities)
    IN  [k \in 1..Len(named) |-> CurrentEntities[named[k] + 1]]

\* group j of the reply is usable and shares no index with a usable group before it
FirstClaim(j) ==
    /\ Usable(api_response[j])
    /\ \A j2 \in 1..(j - 1) :
          Usable(api_response[j2]) =>
              GroupIndices(api_response[j2]) \cap GroupIndices(api_response[j]) = {}

\* the reply of the current type holds an index outside [0, n)
OutOfRangeReply ==
    /\ TypeDone
    /\ \E j \in 1..Len(api_response) : \E i \in 1..Len(api_response[j]) :
          api_response[j][i] < 0 \/ api_response[j][i] >= Len(CurrentEntities)

\* C19 as stated: if a merge_groups response holds an index outside [0, n)
\* for a type of n entities, no merge from that response is applied.
C19_OutOfRangeInvalidates ==
    OutOfRangeReply =>
        \A k \in 1..Len(type_members) : Cardinality(type_members[k]) = 1

\* C19, amended: an index outside [0, n) invalidates only itself. A group
\* with a negative index is dropped, an index >= n is skipped within its
\* group, and the in-range indices of the usable groups are still merged:
\* every input entity is in exactly one output entity, every merge is the
\* in-range part of a usable group, and every usable group that shares no
\* index with a usable group before it is merged over its in-range indices.
C19_OutOfRangeIndexSkipped ==
    OutOfRangeReply =>
        /\ \A i \in 1..Len(CurrentIndices) :
              Cardinality({k \in 1..Len(type_members) : CurrentIndices[i] \in type_members[k]}) = 1
        /\ \A k \in 1..Len(type_members) :
              Cardinality(type_members[k]) >= 2 =>
                  \E j \in 1..Len(api_response) :
                      /\ Usable(api_response[j])
                      /\ type_members[k] = GroupPositions(api_response[j])
        /\ \A j \in 1..Len(api_response) :
              (FirstClaim(j) /\ GroupPositions(api_response[j]) # {}) =>
                  \E k \in 1..Len(type_members) :
                      /\ type_members[k] = GroupPositions(api_response[j])
                      /\ type_aligned[k] = _merge_entities(GroupEntities(api_response[j]))

\* a reply with an index out of range and a negative one, and a merge of
\* two entities made from it
C19_Witness ==
    /\ OutOfRangeReply
    /\ \E j \in 1..Len(api_response) : ~Usable(api_response[j])
    /\ \E j \in 1..Len(api_response) : \E i \in 1..Len(api_response[j]) :
          api_response[j][i] >= Len(CurrentEntities)
    /\ \E k \in 1..Len(type_members) : Cardinality(type_members[k]) = 2

\* the indices consumed by the first k of the validated groups, for n entities
RECURSIVE ConsumedAfter(_, _, _)
ConsumedAfter(groups, k, n) ==
    IF k = 0 THEN {}
    ELSE LET before == ConsumedAfter(groups, k - 1, n)
             indices == GroupIndices(groups[k])
         IN  IF indices \cap before # {} THEN before
             ELSE before \cup {i \in indices : 0 <= i /\ i < n}

\* all indices the validated groups of the reply consumed
ConsumedByReply == ConsumedAfter(merge_groups, Len(merge_groups), Len(CurrentEntities))

\* group k of the validated groups holds an index an earlier group consumed
DuplicateGroup(k) ==
    GroupIndices(merge_groups[k]) \cap ConsumedAfter(merge_groups, k - 1, Len(CurrentEntities)) # {}

\* the groups of the reply that were merged
AppliedGroups ==
    {k \in 1..Len(merge_groups) : ~DuplicateGroup(k) /\ GroupPositions(merge_groups[k]) # {}}

\* C20: when a merge group holds an index an earlier group of the same
\* response consumed, that later group produces no merged entity at all,
\* the earlier groups' merges are unchanged, and every index of the skipped
\* group that no other group consumed is in the output as a pass-through
\* singleton.
C20_DuplicateGroupSkipped ==
    (TypeDone /\ \E k \in 1..Len(merge_groups) : DuplicateGroup(k)) =>
        /\ Len(type_aligned) = Cardinality(AppliedGroups)
                                   + Len(CurrentEntities) - Cardinality(ConsumedByReply)
        /\ \A p \in 1..Len(type_members) :
              Cardinality(type_members[p]) >= 2 =>
                  \E k \in AppliedGroups : type_members[p] = GroupPositions(merge_groups[k])
        /\ \A k \in AppliedGroups :
              \E p \in 1..Len(type_members) :
                  /\ type_members[p] = GroupPositions(merge_groups[k])
                  /\ type_aligned[p] = _merge_entities(GroupEntities(merge_groups[k]))
        /\ \A k \in 1..Len(merge_groups) :
              DuplicateGroup(k) =>
                  \A idx \in GroupIndices(merge_groups[k]) \ ConsumedByReply :
                      idx < Len(CurrentEntities) =>
                          \E p \in 1..Len(type_members) :
                              /\ type_members[p] = {CurrentIndices[idx + 1]}
                              /\ type_aligned[p] = CurrentEntities[idx + 1]

\* the reply [[0, 1], [1, 2]] for three entities: one merge of two, and
\* the third entity passed through
C20_Witness ==
    /\ TypeDone
    /\ merge_groups = <<<<0, 1>>, <<1, 2>>>>
    /\ Len(type_aligned) = 2
    /\ type_members = <<{CurrentIndices[1], CurrentIndices[2]}, {CurrentIndices[3]}>>
    /\ type_aligned[2] = CurrentEntities[3]

(***************************************************************************)
(* The extracted subgraph: induced edges, the hop cap, reachability.       *)
(***************************************************************************)
\* C21: induced subgraph.  The returned subgraph holds every edge of the
\* input graph whose pkey and skey are both in the visited node set, also
\* when the traversal stopped because the hop cap was reached.
C21_InducedSubgraph ==
    (pc = "extracted" /\ StartNodes(all_nodes) # {}) =>
        \A edge_key \in DOMAIN all_edges :
            (edge_key.pkey \in visited_nodes /\ edge_key.skey \in visited_nodes) =>
                edge_key \in DOMAIN final_edges

\* C22: bounded traversal.  No more than the capped number of hop levels
\* is expanded: no frontier beyond hop 10 (the cap) is ever expanded.
C22_BoundedTraversal == hop_count <= hop_limit

\* the pkeys reachable from a set of pkeys by edges from pkey to skey
RECURSIVE ReachableFrom(_, _)
ReachableFrom(edges, seen) ==
    LET more == {edge_key.skey : edge_key \in {k \in DOMAIN edges : k.pkey \in seen}} \ seen
    IN  IF more = {} THEN seen ELSE ReachableFrom(edges, seen \cup more)

\* C23: directed reachability.  When the hop cap is not reached, the pkeys
\* of the nodes of the extracted subgraph are exactly the pkeys of the nodes
\* reachable from the root nodes by edges from pkey to skey; a node with
\* only an edge into the visited set is not among them.
C23_DirectedReachability ==
    (pc = "extracted" /\ StartNodes(all_nodes) # {} /\ hop_count <= hop_limit) =>
        Pkeys(final_nodes) = ReachableFrom(all_edges, StartNodes(all_nodes)) \cap Pkeys(all_nodes)

\* C23 witness: the traversal ended below the cap of the code, on a graph
\* with a cycle, returned nodes behind the roots, and left out the upstream
\* node, whose edge leads to a root
C23_Witness ==
    /\ pc = "extracted"
    /\ hop_count <= hop_limit
    /\ hop_count >= 3
    /\ GraphEdge(UpstreamPkey, Apt41Marker) \in DOMAIN all_edges
    /\ GraphEdge(ChainPkey(2), Apt41Marker) \in DOMAIN all_edges
    /\ Apt41Marker \in Pkeys(final_nodes)
    /\ ChainPkey(3) \in Pkeys(final_nodes)
    /\ UpstreamPkey \in Pkeys(all_nodes) \ Pkeys(final_nodes)

(***************************************************************************)
(* The enhancer: duplicates, edges, the bridge node, failures.             *)
(***************************************************************************)
\* a node that enhancement added
IsAddedNode(node_key) == "source" \in DOMAIN node_key

\* _enhance_procedure_entity has returned for the procedure before proc_pos,
\* and that procedure was queried
AfterQuery ==
    /\ pc = "procedures"
    /\ proc_pos > 1
    /\ Queryable(procedure_entities[proc_pos - 1])

\* the procedure the latest call of _enhance_procedure_entity was made for
BridgeNode == procedure_entities[proc_pos - 1]

\* the matches the latest query gave
LatestMatches == QuerySimilarTtps(es_raised, es_response)

\* C24: enhancement node dedup.  With deduplication enabled, enhancement
\* never adds a tactic or technique node whose (entity_type, lowercased
\* label) equals that of a node already in the graph, so in a returned graph
\* no added node shares its (entity_type, lowercased label) with another
\* node; the HAS and LAUNCH edges of a match are still made, with the pkeys
\* made from its tactic and technique, when these were duplicates.
C24_NodeDedup ==
    /\ (pc = "enhanced" /\ enable_deduplication) =>
          \A k \in 1..Len(enhanced_kg_data) :
              \A added \in DOMAIN enhanced_kg_data[k].nodes :
                  IsAddedNode(added) =>
                      \A other \in DOMAIN enhanced_kg_data[k].nodes \ {added} :
                          ~(/\ other.entity_type = added.entity_type
                            /\ Lower(other.label) = Lower(added.label))
    /\ (AfterQuery /\ enable_deduplication) =>
          \A i \in 1..Len(LatestMatches) :
              LET ttp == LatestMatches[i]
                  tactics_pkey == _generate_simple_pkey(TypeTactics, ttp.tactics)
                  techniques_pkey == _generate_simple_pkey(TypeTechniques, ttp.techniques)
              IN  /\ (~IsBlank(ttp.tactics) /\ ~IsBlank(ttp.techniques)) =>
                        EsEdgeKey(LabelHas, tactics_pkey, techniques_pkey, ttp.score)
                            \in DOMAIN chunk_edges
                  /\ ~IsBlank(ttp.techniques) =>
                        EsEdgeKey(LabelLaunch, techniques_pkey, BridgeNode.pkey, ttp.score)
                            \in DOMAIN chunk_edges

\* C24 witness: a match whose tactic duplicates a node of the input: the
\* returned graph has the HAS edge and a new technique, and no new tactic
C24_Witness ==
    /\ pc = "enhanced"
    /\ enable_deduplication
    /\ Len(enhanced_kg_data) >= 1
    /\ NodeInitialAccess \in DOMAIN kg_data[1].nodes
    /\ \E edge_key \in DOMAIN enhanced_kg_data[1].edges : edge_key.label = LabelHas
    /\ \E node_key \in DOMAIN enhanced_kg_data[1].nodes :
          IsAddedNode(node_key) /\ node_key.entity_type = TypeTechniques
    /\ \A node_key \in DOMAIN enhanced_kg_data[1].nodes :
          IsAddedNode(node_key) => node_key.entity_type # TypeTactics

\* C25: enhancement edge uniqueness.  A returned graph holds at most one
\* HAS edge for each (tactic pkey, technique pkey) pair and at most one
\* LAUNCH edge for each (technique pkey, bridge pkey) pair, also when
\* several matches with different scores give the same pair.
C25_EdgeUniqueness ==
    pc = "enhanced" =>
        \A k \in 1..Len(enhanced_kg_data) :
            \A e1 \in DOMAIN enhanced_kg_data[k].edges :
                e1.label \in {LabelHas, LabelLaunch} =>
                    \A e2 \in DOMAIN enhanced_kg_data[k].edges \ {e1} :
                        ~(e2.label = e1.label /\ e2.pkey = e1.pkey /\ e2.skey = e1.skey)

\* the number of matches with a procedure text
RECURSIVE CountWithProcedure(_)
CountWithProcedure(ttps) ==
    IF ttps = << >> THEN 0
    ELSE (IF IsBlank(Head(ttps).procedure) THEN 0 ELSE 1) + CountWithProcedure(Tail(ttps))

\* C26: the bridge node is corroborated, not replaced.  After a bridge node
\* was enhanced with k matches that carry a procedure text, the graph has
\* exactly one node with the pkey of the bridge node, its count is the count
\* before plus k, and every other node and every edge the graph had before
\* is still there with its count.
C26_BridgeCorroborated ==
    AfterQuery =>
        LET with_pkey == {node_key \in DOMAIN chunk_nodes : node_key.pkey = BridgeNode.pkey}
        IN  /\ Cardinality(with_pkey) = 1
            /\ \A node_key \in with_pkey :
                  chunk_nodes[node_key] = chunk_nodes_before[BridgeNode]
                                            + CountWithProcedure(LatestMatches)
            /\ \A node_key \in DOMAIN chunk_nodes_before \ {BridgeNode} :
                  /\ node_key \in DOMAIN chunk_nodes
                  /\ chunk_nodes[node_key] = chunk_nodes_before[node_key]
            /\ \A edge_key \in DOMAIN chunk_edges_before :
                  /\ edge_key \in DOMAIN chunk_edges
                  /\ chunk_edges[edge_key] = chunk_edges_before[edge_key]

\* C26 witness: two matches with a procedure text for a bridge node of a
\* graph with a tactic and an edge: its count went from 1 to 3 under a new key
C26_Witness ==
    /\ AfterQuery
    /\ CountWithProcedure(LatestMatches) = 2
    /\ DOMAIN chunk_edges_before # {}
    /\ NodeInitialAccess \in DOMAIN chunk_nodes
    /\ BridgeNode \notin DOMAIN chunk_nodes
    /\ \E node_key \in DOMAIN chunk_nodes :
          node_key.pkey = BridgeNode.pkey /\ chunk_nodes[node_key] = 3

\* the latest search raised, or gave no hit at or above the threshold
NoQualifyingRecord ==
    es_raised \/ \A i \in 1..Len(es_response) : es_response[i].score < es_similarity_threshold

\* the procedures of the input that are queried, graph by graph
RECURSIVE QueriesDue(_)
QueriesDue(graphs) ==
    IF graphs = << >> THEN 0
    ELSE Len(SelectSeq(ProcedureEntities(Head(graphs)), Queryable)) + QueriesDue(Tail(graphs))

\* C27: failure semantics.  If the search for a bridge node raises or gives
\* no qualifying record, that node keeps its key and count, no node or edge
\* is added for it, and it is not recorded as enhanced for that query; the
\* run does not raise and the remaining bridge nodes are still handled: at
\* the return every graph was returned and every procedure that can be
\* queried was queried.
C27_FailureSemantics ==
    /\ (AfterQuery /\ NoQualifyingRecord) =>
          /\ chunk_nodes = chunk_nodes_before
          /\ chunk_edges = chunk_edges_before
          /\ BridgeNode \in DOMAIN chunk_nodes
          /\ BridgeNode \in global_enhanced_procedures => BridgeNode \in touched_procedures
    /\ (pc = "enhanced" /\ es_available) =>
          /\ Len(enhanced_kg_data) = Len(kg_data)
          /\ enhancement_stats.es_queries = QueriesDue(kg_data)

\* C27 witness: of the two procedures of a graph the first was enhanced, and
\* the search for the second raised
C27_Witness ==
    /\ AfterQuery
    /\ proc_pos = 3
    /\ es_raised
    /\ chunk_nodes # kg_data[graph_idx].nodes
    /\ BridgeNode \in DOMAIN chunk_nodes
    /\ BridgeNode \notin global_enhanced_procedures
    /\ global_enhanced_procedures # {}

(***************************************************************************)
(* call_api: retries.                                                      *)
(***************************************************************************)
\* the errors that are transient whatever their count: rate limit, timeout,
\* server and connection errors
Transient(exception) ==
    exception \in {"RateLimitError", "APITimeoutError", "InternalServerError",
                   "APIConnectionError", "RequestException", "TimeoutText"}

\* C28: a transient failure with retries left is followed by a backoff wait
\* and another attempt, so call_api gives up on a transient error only after
\* max_retries + 1 attempts and max_retries waits; it never makes more than
\* max_retries + 1 attempts; and a failed call makes align_entities go on
\* with the rule-based alignment.
C28_BoundedRetry ==
    /\ attempts <= max_retries + 1
    /\ (pc = "api_end" /\ thread_result # "content" /\ Transient(last_exception))
          => (attempts = max_retries + 1 /\ sleeps = max_retries)
    /\ (align_path # "none" /\ caller_result # "content") => align_path = "rule"

(***************************************************************************)
(* _extract_with_threading: the hand-off.                                  *)
(***************************************************************************)
\* what the chunk at position i stands for in the returned list: the
\* result its worker returned, or the empty result when its worker raised
ResultOf(i) == IF future[i].raised THEN EmptyResult ELSE future[i].value

\* the list that was returned has one result per chunk, in the order of the
\* chunks, with the empty result for a chunk whose worker raised
OrderedComplete ==
    /\ Len(extract_return) = Len(docs)
    /\ \A i \in DOMAIN docs : extract_return[i] = ResultOf(i)
    /\ \A i \in DOMAIN docs : future[i].raised => extract_return[i] = EmptyResult

\* C29: whatever the interleaving and the order of completion,
\* _extract_with_threading returns only when every chunk is done, the list
\* it returns has one result per chunk, position i holds the result of
\* docs[i], and a chunk whose worker raised gives the empty result at its
\* own position.
C29_OrderedCompleteHandoff ==
    IF pc = "extracted"
    THEN /\ \A i \in DOMAIN worker : worker[i] = "done"
         /\ OrderedComplete
    ELSE extract_return = << >>

\* three chunks were collected out of order, one worker raised and a later
\* chunk has data
C29_Witness ==
    /\ pc = "extracted"
    /\ Len(docs) = 3
    /\ collected[1] # 1
    /\ \E i \in DOMAIN docs : \E j \in DOMAIN docs :
          /\ i < j
          /\ future[i].raised
          /\ future[j] = FutureResult(DataResult(docs[j]))

(***************************************************************************)
(* align_entities: the ids of the returned entities.                       *)
(***************************************************************************)
\* C30: no two entities of the list align_entities returns have the same
\* id, also when two groups of one type have longest names with the same
\* normal form and when the same raw entity occurs in several chunks.
C30_UniqueCanonicalIds ==
    Aligned =>
       \A i \in DOMAIN aligned_entities : \A j \in DOMAIN aligned_entities :
          i # j => aligned_entities[i].id # aligned_entities[j].id

=============================================================================
